---- MODULE Spec2Model ----
(***************************************************************************)
(* Verification model of the go-hdb driver core (package driver).          *)
(*                                                                         *)
(* Spec      the per-connection lock discipline, the worker/select         *)
(*           cancellation pattern and the bad-connection latch of conn,    *)
(*           tx, stmt and callStmt (driver/dsn.go, connection part).       *)
(* SpecBulk  stmt.ExecContext in bulk and many mode on top of stmt.exec    *)
(*           and conn._execBulk.                                           *)
(* SpecDSN   parseDSN and DSN.String.                                      *)
(***************************************************************************)
EXTENDS Integers, Sequences, FiniteSets, TLC

(***************************************************************************)
(* Program constants.                                                      *)
(***************************************************************************)
lrNestedQuery == 1

\* goroutines calling into the connection: the goroutine database/sql runs
\* the application's calls on, and the pinger goroutine started by newConn
Procs == {"app", "pinger"}

\* operations entering through connLock.tryLock
TryLockOps == {"Ping", "PrepareContext", "BeginTx", "QueryContext", "ExecContext",
               "DBConnectInfo", "StmtQuery", "StmtExec", "CallQuery", "CallExec"}
\* operations passing lrNestedQuery to tryLock
QueryOps == {"QueryContext", "StmtQuery", "CallQuery"}
\* operations entering through connLock.lock
LockOps == {"IsValid", "ResetSession", "Close", "TxClose", "StmtClose", "CallStmtClose"}
\* operations that run their exchange on a worker goroutine
WorkerOps == TryLockOps \ {"PrepareContext"}
\* the pinger calls c.Ping(context.Background()) and nothing else
OpsOf(p) == IF p = "pinger" THEN {"Ping"} ELSE TryLockOps \cup LockOps

\* call inputs that select a path of the operation
Variants(o) ==
    CASE o = "QueryContext"   -> {"plain", "args", "call", "idMiss", "idHit", "scanErr"}
      [] o = "ExecContext"    -> {"plain", "args", "scanErr"}
      [] o = "BeginTx"        -> {"plain", "badLevel"}
      [] o = "PrepareContext" -> {"plain", "scanErr"}
      [] o = "StmtQuery"      -> {"plain", "argCount", "prmErr"}
      [] o = "StmtExec"       -> {"plain", "argCount", "prmErr"}
      [] o = "CallQuery"      -> {"plain", "argCount", "prmErr"}
      [] o = "CallExec"       -> {"plain", "argCount", "prmErr"}
      [] OTHER                -> {"plain"}

VARIABLES
    mu,           \* connLock.mu: "free" or the goroutine inside tryLock
    connMu,       \* connLock.connMu: "free", the goroutine holding it, or "rows"
    lockReason,   \* connLock.lockReason
    lockFault,    \* connMu.Unlock was called on an unlocked mutex
    cancelled,    \* dbConn.cancelled
    dbLastError,  \* dbConn.lastError
    dbClosed,     \* dbConn.closed
    cLastError,   \* conn.lastError: "nil", "hdb" (type Error) or "other"
    inTx,         \* conn.inTx
    pc,           \* position of each goroutine inside its current call
    op,           \* operation and variant of the current call
    ctxDone,      \* the call's context is cancelled
    res,          \* named result parameters of the current call
    wrote,        \* a message was written on behalf of the current call
    ctxFirst,     \* the context was cancelled while the exchange was incomplete
    wk,           \* the goroutine running the exchange
    cursor,       \* the rows object handed to the application
    txObj,        \* the tx object handed to the application
    stmtObj,      \* a prepared stmt is in the hands of the application
    callObj,      \* a prepared callStmt is in the hands of the application
    last,         \* the most recent return, until the next call starts
    \* a statement in bulk or many mode
    bulk,         \* stmt.bulk
    flush,        \* stmt.flush
    many,         \* stmt.many
    bulkSize,     \* stmt.bulkSize
    numBulk,      \* stmt.numBulk
    nvargs,       \* stmt.nvargs, one element per buffered row
    hasLob,       \* the statement has a LOB parameter
    rowSeq,       \* rows the application has handed over one by one
    execLog,      \* the stmt.exec calls of the current Exec call
    em,           \* the package loop of execMany: numRow, p, totalRowsAffected
    bin,          \* the arguments of the current Exec call and the state it found
    bret,         \* what the current Exec call returned
    bpc,          \* "idle", "many" (in the package loop) or "crashed"
    \* a DSN string on its way through parseDSN and DSN.String
    dsnIn,        \* the DSN string given
    dsn,          \* parseDSN(dsnIn)
    dsnStr,       \* dsn.String()
    dsn2,         \* parseDSN(dsnStr)
    dpc,          \* "start", "rejected", "parsed", "printed" or "reparsed"
    \* the attributes of a connector (connAttrs)
    _timeout,     \* connAttrs._timeout
    _bulkSize,    \* connAttrs._bulkSize
    _fetchSize,   \* connAttrs._fetchSize
    _lobChunkSize, \* connAttrs._lobChunkSize
    _dfv,         \* connAttrs._dfv
    attrSet,      \* the most recent setter call: its attribute and argument
    \* one call of a function of the protocol layer
    fnArg,        \* the input of the call
    fnRes,        \* what the call returned
    fnpc          \* "idle", the function to be called, or "done"

lockVars == <<mu, connMu, lockReason, lockFault>>
dbVars   == <<cancelled, dbLastError, dbClosed>>
callVars == <<pc, op, ctxDone, res, wrote, ctxFirst>>
objVars  == <<cursor, txObj, stmtObj, callObj>>
connVars == <<lockVars, dbVars, cLastError, inTx, callVars, wk, objVars, last>>
bulkVars == <<bulk, flush, many, bulkSize, numBulk, nvargs, hasLob, rowSeq, execLog, em, bin,
              bret, bpc>>
dsnVars  == <<dsnIn, dsn, dsnStr, dsn2, dpc>>
attrVars == <<_timeout, _bulkSize, _fetchSize, _lobChunkSize, _dfv, attrSet>>
\* the variables of the parts added to the connection, the statement and the DSN
fnVars   == <<fnArg, fnRes, fnpc>>
moreVars == <<attrVars, fnVars>>
\* the variables a part leaves alone
exAttrs  == <<connVars, bulkVars, dsnVars, fnVars>>
exFn     == <<connVars, bulkVars, dsnVars, attrVars>>

NoOp  == [name |-> "none", variant |-> "plain"]
NoRes == [val |-> "nil", err |-> "nil"]
NoWk  == [owner |-> "none", o |-> "none", st |-> "none", exch |-> 0, orphan |-> FALSE]
NoCursor == [st |-> "none", onClose |-> FALSE]
NoLast == [p |-> "none", name |-> "none", variant |-> "plain", val |-> "nil", err |-> "nil",
           wrote |-> FALSE, ctxFirst |-> FALSE, bad |-> FALSE]

\* state of a connection returned by newConn
ConnInit ==
    /\ mu = "free"
    /\ connMu = "free"
    /\ lockReason = 0
    /\ lockFault = FALSE
    /\ cancelled = FALSE
    /\ dbLastError = "nil"
    /\ dbClosed = FALSE
    /\ cLastError = "nil"
    /\ inTx = FALSE
    /\ pc = [p \in Procs |-> "idle"]
    /\ op = [p \in Procs |-> NoOp]
    /\ ctxDone = [p \in Procs |-> FALSE]
    /\ res = [p \in Procs |-> NoRes]
    /\ wrote = [p \in Procs |-> FALSE]
    /\ ctxFirst = [p \in Procs |-> FALSE]
    /\ wk = NoWk
    /\ cursor = NoCursor
    /\ txObj = "none"
    /\ stmtObj = FALSE
    /\ callObj = FALSE
    /\ last = NoLast

\* conn.isBad ignoring the error recorded by dbConn
isBad_latchIgnored == cLastError = "other"

(***************************************************************************)
(* conn.isBad                                                              *)
(***************************************************************************)
isBad == \/ dbLastError # "nil"
         \/ cLastError = "other"

\* classification that takes every error for a non-HDB error
ErrClass_allFatal(e) == IF e = "nil" THEN "nil" ELSE "other"

\* classification of an error value stored into conn.lastError
ErrClass(e) == IF e = "nil" THEN "nil" ELSE IF e = "hdb" THEN "hdb" ELSE "other"

(***************************************************************************)
(* Helpers shared by the operations.                                       *)
(***************************************************************************)
\* the call of goroutine p returns (v, e); w: a message was written for it
Returns(p, v, e, w) ==
    /\ pc' = [pc EXCEPT ![p] = "idle"]
    /\ last' = [p |-> p, name |-> op[p].name, variant |-> op[p].variant, val |-> v,
                err |-> e, wrote |-> w, ctxFirst |-> ctxFirst[p], bad |-> dbLastError # "nil"]
    /\ op' = [op EXCEPT ![p] = NoOp]
    /\ ctxDone' = [ctxDone EXCEPT ![p] = FALSE]
    /\ res' = [res EXCEPT ![p] = NoRes]
    /\ wrote' = [wrote EXCEPT ![p] = FALSE]
    /\ ctxFirst' = [ctxFirst EXCEPT ![p] = FALSE]

\* the objects a returned value hands to the application
Handover(v) ==
    /\ txObj' = IF v = "tx" THEN "open" ELSE txObj
    /\ stmtObj' = (stmtObj \/ v = "stmt")
    /\ callObj' = (callObj \/ v = "callStmt")

\* values a successful exchange of operation o produces
SuccVals(o) ==
    CASE o = "BeginTx"                    -> {"tx"}
      [] o \in {"QueryContext", "StmtQuery"} -> {"rows", "noResult"}
      [] o = "CallQuery"                  -> {"rows"}
      [] o \in {"ExecContext", "StmtExec", "CallExec"} -> {"result"}
      [] o = "DBConnectInfo"              -> {"ci"}
      [] o = "PrepareContext"             -> {"stmt", "callStmt"}
      [] OTHER                            -> {"nil"}

\* number of request/reply exchanges of operation o
NumExch(o) == IF o = "BeginTx" THEN 2 ELSE 1

\* the operation can be called: the application holds the object it is a
\* method of, and conn.Close is called once
Available(o) ==
    CASE o \in {"StmtQuery", "StmtExec", "StmtClose"}     -> stmtObj
      [] o \in {"CallQuery", "CallExec", "CallStmtClose"} -> callObj
      [] o = "TxClose"                                    -> txObj # "none"
      [] o = "Close"                                      -> ~dbClosed
      [] OTHER                                            -> TRUE

(***************************************************************************)
(* A goroutine calls an operation of conn, tx, stmt or callStmt.           *)
(***************************************************************************)
Call(p) ==
    /\ UNCHANGED <<bulkVars, dsnVars, moreVars>>
    /\ pc[p] = "idle"
    /\ \E o \in OpsOf(p) : \E v \in Variants(o) :
         /\ Available(o)
         /\ v = "idHit" => callObj
         /\ op' = [op EXCEPT ![p] = [name |-> o, variant |-> v]]
         /\ pc' = [pc EXCEPT ![p] = IF o = "StmtExec" THEN "entry"
                                    ELSE IF o \in TryLockOps THEN "tryLock" ELSE "lock"]
    /\ last' = NoLast
    /\ UNCHANGED <<lockVars, dbVars, cLastError, inTx, ctxDone, res, wrote, ctxFirst, wk,
                   objVars>>

\* stmt.ExecContext, default case: argument count check before stmt.exec
StmtExecContext(p) ==
    /\ UNCHANGED <<bulkVars, dsnVars, moreVars>>
    /\ pc[p] = "entry"
    /\ IF op[p].variant = "argCount"
       THEN Returns(p, "nil", "argCount", FALSE)
       ELSE /\ pc' = [pc EXCEPT ![p] = "tryLock"]
            /\ UNCHANGED <<op, ctxDone, res, wrote, ctxFirst, last>>
    /\ UNCHANGED <<lockVars, dbVars, cLastError, inTx, wk, objVars>>

(***************************************************************************)
(* connLock.tryLock                                                        *)
(***************************************************************************)
\* tryLock without the lockReason check
tryLockCheck_noGuard(p) ==
    /\ UNCHANGED <<bulkVars, dsnVars, moreVars>>
    /\ pc[p] = "tryLock"
    /\ mu = "free"
    /\ mu' = p
    /\ pc' = [pc EXCEPT ![p] = "connWait"]
    /\ UNCHANGED <<connMu, lockReason, lockFault, dbVars, cLastError, inTx, op, ctxDone, res,
                   wrote, ctxFirst, wk, objVars, last>>

\* l.mu.Lock() and the lockReason check
tryLockCheck(p) ==
    /\ UNCHANGED <<bulkVars, dsnVars, moreVars>>
    /\ pc[p] = "tryLock"
    /\ mu = "free"
    /\ IF lockReason = lrNestedQuery
       THEN /\ Returns(p, "nil", "ErrNestedQuery", wrote[p])
            /\ UNCHANGED mu
       ELSE /\ mu' = p
            /\ pc' = [pc EXCEPT ![p] = "connWait"]
            /\ UNCHANGED <<op, ctxDone, res, wrote, ctxFirst, last>>
    /\ UNCHANGED <<connMu, lockReason, lockFault, dbVars, cLastError, inTx, wk, objVars>>

\* l.connMu.Lock(), store of lockReason, l.mu.Unlock()
tryLockAcquire(p) ==
    /\ UNCHANGED <<bulkVars, dsnVars, moreVars>>
    /\ pc[p] = "connWait"
    /\ connMu = "free"
    /\ connMu' = p
    /\ lockReason' = IF op[p].name \in QueryOps THEN lrNestedQuery ELSE 0
    /\ mu' = "free"
    /\ pc' = [pc EXCEPT ![p] = "body"]
    /\ UNCHANGED <<lockFault, dbVars, cLastError, inTx, op, ctxDone, res, wrote, ctxFirst, wk,
                   objVars, last>>

\* an unlock that leaves connMu locked
unlock_noRelease ==
    /\ lockReason' = 0
    /\ UNCHANGED <<connMu, lockFault>>

\* connLock.unlock
unlock ==
    /\ lockReason' = 0
    /\ connMu' = "free"
    /\ lockFault' = (lockFault \/ connMu = "free")

(***************************************************************************)
(* Body of a tryLock operation up to the start of the exchange.            *)
(***************************************************************************)
\* early returns without the check of c.inTx
EarlyErr_noTxCheck(o, v) ==
    CASE isBad                                              -> "ErrBadConn"
      [] o \in {"QueryContext", "ExecContext"} /\ v = "args" -> "ErrSkip"
      [] o = "QueryContext" /\ v = "scanErr"                -> "other"
      [] o = "QueryContext" /\ v = "call"                   -> "ErrSkip"
      [] o = "QueryContext" /\ v = "idMiss"                 -> "other"
      [] o = "BeginTx" /\ v = "badLevel"                    -> "ErrUnsupportedIsolationLevel"
      [] o \in {"StmtQuery", "CallQuery", "CallExec"} /\ v = "argCount" -> "argCount"
      [] OTHER                                              -> "none"

\* the error of an early return, "none" if the exchange is started
EarlyErr(o, v) ==
    CASE isBad                                              -> "ErrBadConn"
      [] o \in {"QueryContext", "ExecContext"} /\ v = "args" -> "ErrSkip"
      [] o = "QueryContext" /\ v = "scanErr"                -> "other"
      [] o = "QueryContext" /\ v = "call"                   -> "ErrSkip"
      [] o = "QueryContext" /\ v = "idMiss"                 -> "other"
      [] o = "BeginTx" /\ inTx                              -> "ErrNestedTransaction"
      [] o = "BeginTx" /\ v = "badLevel"                    -> "ErrUnsupportedIsolationLevel"
      [] o \in {"StmtQuery", "CallQuery", "CallExec"} /\ v = "argCount" -> "argCount"
      [] OTHER                                              -> "none"

\* the exchange fails before a message is written
PreFail(v) == v \in {"scanErr", "prmErr"}

Body(p) ==
    /\ UNCHANGED <<bulkVars, dsnVars, moreVars>>
    /\ pc[p] = "body"
    /\ LET o == op[p].name
           v == op[p].variant
           e == EarlyErr(o, v)
       IN IF e # "none"
          THEN \* return with the deferred c.unlock()
               /\ unlock
               /\ Returns(p, "nil", e, wrote[p])
               /\ UNCHANGED <<wk, cursor>>
          ELSE IF o = "QueryContext" /\ v = "idHit"
          THEN \* the rows of a table output parameter, taken from the
               \* result cache: setOnClose(c.unlock), hasRowsCloser = true
               /\ cursor' = [st |-> "open", onClose |-> TRUE]
               /\ connMu' = "rows"
               /\ Returns(p, "rows", "nil", wrote[p])
               /\ UNCHANGED <<lockReason, lockFault, wk>>
          ELSE /\ wk' = [owner |-> p, o |-> o,
                         st |-> IF PreFail(v) THEN "prefail" ELSE "write",
                         exch |-> NumExch(o), orphan |-> FALSE]
               /\ pc' = [pc EXCEPT ![p] = IF o = "PrepareContext" THEN "sync" ELSE "select"]
               /\ UNCHANGED <<lockReason, connMu, lockFault, op, ctxDone, res, wrote,
                              ctxFirst, last, cursor>>
    /\ UNCHANGED <<mu, dbVars, cLastError, inTx, txObj, stmtObj, callObj>>

(***************************************************************************)
(* The request/reply exchange.  It runs on a worker goroutine, except for  *)
(* PrepareContext, whose closure is called by the caller itself.           *)
(***************************************************************************)
\* the exchange ends: the closure stores its results and closes done
Finish(v, e) ==
    LET p == wk.owner
    IN IF wk.orphan
       THEN \* the call has returned: the stores hit variables nobody reads
            /\ wk' = NoWk
            /\ UNCHANGED <<res, pc>>
       ELSE /\ wk' = [wk EXCEPT !.st = "done"]
            /\ res' = [res EXCEPT ![p] = [val |-> v, err |-> e]]
            /\ pc' = [pc EXCEPT ![p] = IF pc[p] = "parked" THEN "selDone"
                                       ELSE IF pc[p] = "sync" THEN "select"
                                       ELSE pc[p]]

\* newQueryDescr, NewInputParameters, _fetchFirstLobChunk or the output
\* parameter check fails: no message is written
WkPreFail ==
    /\ UNCHANGED <<bulkVars, dsnVars, moreVars>>
    /\ wk.st = "prefail"
    /\ Finish("nil", "other")
    /\ UNCHANGED <<lockVars, dbVars, cLastError, inTx, op, ctxDone, wrote, ctxFirst, objVars,
                   last>>

\* a dbConn.Write that does not look at the cancelled flag
WkWrite_noCancelCheck ==
    /\ UNCHANGED <<bulkVars, dsnVars, moreVars>>
    /\ wk.st = "write"
    /\ \/ /\ wrote' = IF wk.orphan THEN wrote ELSE [wrote EXCEPT ![wk.owner] = TRUE]
          /\ wk' = [wk EXCEPT !.st = "read"]
          /\ UNCHANGED <<dbLastError, res, pc>>
       \/ /\ dbLastError' = "ioErr"
          /\ Finish("nil", "ErrBadConn")
          /\ UNCHANGED wrote
    /\ UNCHANGED <<lockVars, cancelled, dbClosed, cLastError, inTx, op, ctxDone, ctxFirst,
                   objVars, last>>

\* c.pw.Write -> dbConn.Write
WkWrite ==
    /\ UNCHANGED <<bulkVars, dsnVars, moreVars>>
    /\ wk.st = "write"
    /\ IF cancelled
       THEN /\ Finish("nil", "ErrBadConn")
            /\ UNCHANGED <<dbLastError, wrote>>
       ELSE \/ /\ wrote' = IF wk.orphan THEN wrote ELSE [wrote EXCEPT ![wk.owner] = TRUE]
               /\ wk' = [wk EXCEPT !.st = "read"]
               /\ UNCHANGED <<dbLastError, res, pc>>
            \/ /\ dbLastError' = "ioErr"
               /\ Finish("nil", "ErrBadConn")
               /\ UNCHANGED wrote
    /\ UNCHANGED <<lockVars, cancelled, dbClosed, cLastError, inTx, op, ctxDone, ctxFirst,
                   objVars, last>>

\* c.pr.IterateParts -> dbConn.Read: the cancelled check and the start of conn.Read
WkReadBegin ==
    /\ UNCHANGED <<bulkVars, dsnVars, moreVars>>
    /\ wk.st = "read"
    /\ IF cancelled
       THEN Finish("nil", "ErrBadConn")
       ELSE wk' = [wk EXCEPT !.st = "reading"] /\ UNCHANGED <<res, pc>>
    /\ UNCHANGED <<lockVars, dbVars, cLastError, inTx, op, ctxDone, wrote, ctxFirst, objVars,
                   last>>

\* conn.Read returns: reply, error segment, transport failure or protocol error
WkReadEnd ==
    /\ UNCHANGED <<bulkVars, dsnVars, moreVars>>
    /\ wk.st = "reading"
    /\ \/ /\ wk.exch > 1
          /\ wk' = [wk EXCEPT !.st = "write", !.exch = wk.exch - 1]
          /\ UNCHANGED <<res, pc, dbLastError, inTx>>
       \/ /\ wk.exch = 1
          /\ \E v \in SuccVals(wk.o) : Finish(v, "nil")
          /\ inTx' = (inTx \/ wk.o = "BeginTx")
          /\ UNCHANGED dbLastError
       \/ /\ Finish("nil", "hdb")
          /\ UNCHANGED <<dbLastError, inTx>>
       \/ /\ dbLastError' = "ioErr"
          /\ Finish("nil", "ErrBadConn")
          /\ UNCHANGED inTx
       \/ /\ Finish("nil", "other")
          /\ UNCHANGED <<dbLastError, inTx>>
    /\ UNCHANGED <<lockVars, cancelled, dbClosed, cLastError, op, ctxDone, wrote, ctxFirst,
                   objVars, last>>

(***************************************************************************)
(* The caller's select between ctx.Done() and done.                        *)
(***************************************************************************)
\* the caller reaches the select statement
SelectEnter(p) ==
    /\ UNCHANGED <<bulkVars, dsnVars, moreVars>>
    /\ pc[p] = "select"
    /\ LET done == wk.owner = p /\ wk.st = "done"
       IN \/ ctxDone[p] /\ pc' = [pc EXCEPT ![p] = "selCancel"]
          \/ done /\ pc' = [pc EXCEPT ![p] = "selDone"]
          \/ ~ctxDone[p] /\ ~done /\ pc' = [pc EXCEPT ![p] = "parked"]
    /\ UNCHANGED <<lockVars, dbVars, cLastError, inTx, op, ctxDone, res, wrote, ctxFirst, wk,
                   objVars, last>>

\* the application cancels the context of the call of p (the pinger's
\* context.Background() is never cancelled).  A cancellation before the
\* select is reached acts like one at its entry.
CtxCancel(p) ==
    /\ UNCHANGED <<bulkVars, dsnVars, moreVars>>
    /\ p # "pinger"
    /\ pc[p] \in {"select", "parked", "sync"}
    /\ ~ctxDone[p]
    /\ ctxDone' = [ctxDone EXCEPT ![p] = TRUE]
    /\ ctxFirst' = [ctxFirst EXCEPT ![p] = ~(wk.owner = p /\ wk.st = "done")]
    /\ pc' = [pc EXCEPT ![p] = IF pc[p] = "parked" THEN "selCancel" ELSE pc[p]]
    /\ UNCHANGED <<lockVars, dbVars, cLastError, inTx, op, res, wrote, wk, objVars, last>>

\* case <-ctx.Done(): c.dbConn.cancel(); return nil, ctx.Err()
\* (the return statement stores into the named results)
SelCancel(p) ==
    /\ UNCHANGED <<bulkVars, dsnVars, moreVars>>
    /\ pc[p] = "selCancel"
    /\ cancelled' = TRUE
    /\ dbLastError' = "errCancelled"
    /\ res' = [res EXCEPT ![p] = [val |-> "nil", err |-> "ctxErr"]]
    /\ pc' = [pc EXCEPT ![p] = "returning"]
    /\ UNCHANGED <<lockVars, dbClosed, cLastError, inTx, op, ctxDone, wrote, ctxFirst, wk,
                   objVars, last>>

\* the deferred c.unlock() runs and the call returns the named results,
\* which the worker may have overwritten since the return statement
ReturnCancelled(p) ==
    /\ UNCHANGED <<bulkVars, dsnVars, moreVars>>
    /\ pc[p] = "returning"
    /\ unlock
    /\ Returns(p, res[p].val, res[p].err, wrote[p])
    /\ Handover(res[p].val)
    /\ cursor' = IF res[p].val = "rows" THEN [st |-> "open", onClose |-> FALSE] ELSE cursor
    /\ wk' = IF wk.owner = p /\ wk.st # "done" THEN [wk EXCEPT !.orphan = TRUE] ELSE NoWk
    /\ UNCHANGED <<mu, dbVars, cLastError, inTx>>

\* case <-done: setOnClose for a rows result, c.lastError = err, return
SelDone(p) ==
    /\ UNCHANGED <<bulkVars, dsnVars, moreVars>>
    /\ pc[p] = "selDone"
    /\ LET r == res[p]
           hasRowsCloser == op[p].name \in QueryOps /\ r.val = "rows"
       IN /\ cLastError' = ErrClass(r.err)
          /\ IF hasRowsCloser
             THEN /\ cursor' = [st |-> "open", onClose |-> TRUE]
                  /\ connMu' = "rows"
                  /\ UNCHANGED <<lockReason, lockFault>>
             ELSE /\ unlock
                  /\ UNCHANGED cursor
          /\ Returns(p, r.val, r.err, wrote[p])
          /\ Handover(r.val)
    /\ wk' = NoWk
    /\ UNCHANGED <<mu, dbVars, inTx>>

(***************************************************************************)
(* Operations entering through connLock.lock.  They hold connMu from       *)
(* lock() to the deferred unlock() and have no cancellation point.         *)
(***************************************************************************)
\* outcomes of a synchronous write/read exchange
SyncOutcomes == {"ok", "hdb", "wfail", "rfail", "other"}
SyncErr(x) == CASE x = "ok"    -> "nil"
                [] x = "hdb"   -> "hdb"
                [] x = "other" -> "other"
                [] OTHER       -> "ErrBadConn"
\* effect of the exchange on dbConn.lastError
SyncExchange(x) ==
    dbLastError' = IF x \in {"wfail", "rfail"} THEN "ioErr" ELSE dbLastError

\* conn.IsValid
IsValid(p) ==
    /\ UNCHANGED <<bulkVars, dsnVars, moreVars>>
    /\ pc[p] = "lock" /\ op[p].name = "IsValid"
    /\ connMu = "free"
    /\ lockReason' = 0
    /\ Returns(p, IF isBad THEN "false" ELSE "true", "nil", FALSE)
    /\ UNCHANGED <<mu, connMu, lockFault, dbVars, cLastError, inTx, wk, objVars>>

\* conn.ResetSession
ResetSession(p) ==
    /\ UNCHANGED <<bulkVars, dsnVars, moreVars>>
    /\ pc[p] = "lock" /\ op[p].name = "ResetSession"
    /\ connMu = "free"
    /\ lockReason' = 0
    /\ Returns(p, "nil", IF isBad THEN "ErrBadConn" ELSE "nil", FALSE)
    /\ UNCHANGED <<mu, connMu, lockFault, dbVars, cLastError, inTx, wk, objVars>>

\* a conn.Close that disconnects whatever the state of the connection
Close_alwaysDisconnect(p) ==
    /\ UNCHANGED <<bulkVars, dsnVars, moreVars>>
    /\ pc[p] = "lock" /\ op[p].name = "Close"
    /\ connMu = "free"
    /\ lockReason' = 0
    /\ \E sent \in BOOLEAN : Returns(p, "nil", "nil", sent)
    /\ dbClosed' = TRUE
    /\ dbLastError' = "errClosed"
    /\ UNCHANGED <<mu, connMu, lockFault, cancelled, cLastError, inTx, wk, objVars>>

\* conn.Close: close(c.closed), _disconnect (a Write and no read) unless the
\* connection is bad, then dbConn.close
Close(p) ==
    /\ UNCHANGED <<bulkVars, dsnVars, moreVars>>
    /\ pc[p] = "lock" /\ op[p].name = "Close"
    /\ connMu = "free"
    /\ lockReason' = 0
    /\ \E sent \in BOOLEAN :
         /\ isBad => ~sent
         /\ Returns(p, "nil", "nil", sent)
    /\ dbClosed' = TRUE
    /\ dbLastError' = "errClosed"
    /\ UNCHANGED <<mu, connMu, lockFault, cancelled, cLastError, inTx, wk, objVars>>

\* conn.pinger: case <-done: return (c.closed is closed by conn.Close)
pinger ==
    /\ UNCHANGED <<bulkVars, dsnVars, moreVars>>
    /\ pc["pinger"] = "idle"
    /\ dbClosed
    /\ pc' = [pc EXCEPT !["pinger"] = "stopped"]
    /\ UNCHANGED <<lockVars, dbVars, cLastError, inTx, op, ctxDone, res, wrote, ctxFirst, wk,
                   objVars, last>>

\* a tx.close without the test of t.closed
txClose_noClosedTest(p) ==
    /\ UNCHANGED <<bulkVars, dsnVars, moreVars>>
    /\ pc[p] = "lock" /\ op[p].name = "TxClose"
    /\ connMu = "free"
    /\ lockReason' = 0
    /\ txObj' = "closed"
    /\ inTx' = FALSE
    /\ IF isBad
       THEN /\ Returns(p, "nil", "ErrBadConn", FALSE)
            /\ UNCHANGED dbLastError
       ELSE \E x \in SyncOutcomes :
               /\ SyncExchange(x)
               /\ Returns(p, "nil", SyncErr(x), x # "wfail")
    /\ UNCHANGED <<mu, connMu, lockFault, cancelled, dbClosed, cLastError, wk, cursor,
                   stmtObj, callObj>>

\* tx.close, called by tx.Commit and tx.Rollback
txClose(p) ==
    /\ UNCHANGED <<bulkVars, dsnVars, moreVars>>
    /\ pc[p] = "lock" /\ op[p].name = "TxClose"
    /\ connMu = "free"
    /\ lockReason' = 0
    /\ IF txObj = "closed"
       THEN /\ Returns(p, "nil", "nil", FALSE)
            /\ UNCHANGED <<txObj, inTx, dbLastError>>
       ELSE /\ txObj' = "closed"
            /\ inTx' = FALSE
            /\ IF isBad
               THEN /\ Returns(p, "nil", "ErrBadConn", FALSE)
                    /\ UNCHANGED dbLastError
               ELSE \E x \in SyncOutcomes :
                       /\ SyncExchange(x)
                       /\ Returns(p, "nil", SyncErr(x), x # "wfail")
    /\ UNCHANGED <<mu, connMu, lockFault, cancelled, dbClosed, cLastError, wk, cursor,
                   stmtObj, callObj>>

\* stmt.Close and callStmt.Close: _dropStatementID unless the connection is bad
stmtClose(p) ==
    /\ UNCHANGED <<bulkVars, dsnVars, moreVars>>
    /\ pc[p] = "lock" /\ op[p].name \in {"StmtClose", "CallStmtClose"}
    /\ connMu = "free"
    /\ lockReason' = 0
    /\ stmtObj' = (stmtObj /\ op[p].name # "StmtClose")
    /\ callObj' = (callObj /\ op[p].name # "CallStmtClose")
    /\ IF isBad
       THEN /\ Returns(p, "nil", "ErrBadConn", FALSE)
            /\ UNCHANGED dbLastError
       ELSE \E x \in SyncOutcomes :
               /\ SyncExchange(x)
               /\ Returns(p, "nil", SyncErr(x), x # "wfail")
    /\ UNCHANGED <<mu, connMu, lockFault, cancelled, dbClosed, cLastError, inTx, wk, cursor,
                   txObj>>

(***************************************************************************)
(* Close of the rows object returned by a query, by the application or by  *)
(* database/sql on behalf of it: CloseResultset unless the server has      *)
(* closed the result set, then the onClose callback (c.unlock).            *)
(***************************************************************************)
CursorClose ==
    /\ UNCHANGED <<bulkVars, dsnVars, moreVars>>
    /\ cursor.st = "open"
    /\ cursor' = NoCursor
    /\ \E x \in SyncOutcomes \cup {"serverClosed"} :
         /\ dbClosed => x \in {"wfail", "serverClosed"}
         /\ IF x = "serverClosed" \/ cancelled
            THEN UNCHANGED dbLastError
            ELSE SyncExchange(x)
         /\ last' = [NoLast EXCEPT !.p = "rows", !.name = "CursorClose",
                       !.err = IF x = "serverClosed" THEN "nil"
                               ELSE IF cancelled THEN "ErrBadConn" ELSE SyncErr(x),
                       !.wrote = ~(x \in {"serverClosed", "wfail"} \/ cancelled),
                       !.bad = dbLastError # "nil"]
    /\ IF cursor.onClose
       THEN unlock
       ELSE UNCHANGED <<lockReason, connMu, lockFault>>
    /\ UNCHANGED <<mu, cancelled, dbClosed, cLastError, inTx, callVars, wk, txObj, stmtObj,
                   callObj>>

(***************************************************************************)
(* stmt in bulk and many mode.  One Exec call of database/sql is           *)
(* stmt.CheckNamedValue over its arguments followed by stmt.ExecContext;   *)
(* stmt.exec is taken as one step with the outcomes of conn._execBulk.     *)
(***************************************************************************)
\* largest bulk size of a statement
MaxBulkSize == 3
\* rows the application hands over one by one
MaxRows == 4
\* largest number of rows of a composite argument
MaxMany == 5

\* the bulk token of an Exec call
Toks == {"none", "NoFlush", "Flush"}
\* the other arguments of an Exec call: none, one row (numField values),
\* a wrong number of values, a row with a value that fails conversion, one
\* composite argument, a composite argument followed by a value that fails
ArgKinds == {"none", "row", "short", "badRow", "many", "manyBad"}

NoEm == [n |-> 0, p |-> 0, tot |-> 0]
NoBret == [val |-> "none", n |-> 0, err |-> FALSE]
NoBin == [tok |-> "none", arg |-> "none", n |-> 0, bulk |-> FALSE, buffered |-> <<>>,
          flush |-> FALSE]

\* a stmt of newStmt: bulk from the query's prefix, bulkSize of the connection
BulkInit ==
    /\ bulk \in BOOLEAN
    /\ flush = FALSE
    /\ many = FALSE
    /\ bulkSize \in 1..MaxBulkSize
    /\ numBulk = 0
    /\ nvargs = <<>>
    /\ hasLob \in BOOLEAN
    /\ rowSeq = 0
    /\ execLog = <<>>
    /\ em = NoEm
    /\ bin = NoBin
    /\ bret = NoBret
    /\ bpc = "idle"

\* no statement is looked at
BulkIdle ==
    /\ bulk = FALSE
    /\ flush = FALSE
    /\ many = FALSE
    /\ bulkSize = 1
    /\ numBulk = 0
    /\ nvargs = <<>>
    /\ hasLob = FALSE
    /\ rowSeq = 0
    /\ execLog = <<>>
    /\ em = NoEm
    /\ bin = NoBin
    /\ bret = NoBret
    /\ bpc = "idle"

min(a, b) == IF a < b THEN a ELSE b

\* stmt.CheckNamedValue over the arguments of one Exec call, in order: the
\* flags it leaves behind and whether it returned a conversion error
CheckNamedValue(tok, arg) ==
    LET b == bulk \/ tok = "NoFlush"
        composite == arg \in {"many", "manyBad"}
    IN [bulk  |-> b,
        flush |-> flush \/ tok = "Flush",
        many  |-> many \/ (composite /\ ~b),
        err   |-> arg \in {"badRow", "manyBad"} \/ (composite /\ b)]

(***************************************************************************)
(* conn._execBulk and conn._exec, as the result of one stmt.exec.          *)
(* out: "ok", "refused" (error before a message is written), "failed"      *)
(* (error after a message was written) or "panic"; ret: the count of the   *)
(* returned result; aff: the rows the server reported affected; subs: the  *)
(* row packages sent as Execute messages.  A statement with parameters is  *)
(* never answered with function code DDL.                                  *)
(***************************************************************************)
\* rows the server reports affected for an Execute of pkg
AffChoices(pkg) == {0, Len(pkg)}

\* choices of the split path: the rows whose first LOB chunk is not the
\* whole LOB, the row whose chunk fetch fails and the row whose package
\* fails in _exec (0: none)
SplitEnvs(n) ==
    {[hasNext |-> h, fetchFail |-> f, execFail |-> e] :
        h \in SUBSET (1..(n - 1)), f \in 0..n, e \in 0..n}

\* the row-by-row loop of _execBulk from row i on
RECURSIVE SplitLoop(_, _, _, _, _, _, _)
SplitLoop(rows, i, lastFrom, totRowsAffected, aff, subs, env) ==
    IF i > Len(rows)
    THEN [out |-> "ok", ret |-> totRowsAffected, aff |-> aff, subs |-> subs]
    ELSE IF env.fetchFail = i
    THEN [out |-> IF subs = <<>> THEN "refused" ELSE "failed", ret |-> 0, aff |-> aff,
          subs |-> subs]
    ELSE IF i \in env.hasNext \/ i = Len(rows)
    THEN LET pkg == SubSeq(rows, lastFrom + 1, i)
         IN IF env.execFail = i
            THEN \* r is nil: r.RowsAffected() dereferences it
                 [out |-> "panic", ret |-> 0, aff |-> aff, subs |-> Append(subs, pkg)]
            ELSE LET rowsAffected == Len(pkg)
                     \* driver.RowsAffected.RowsAffected never fails
                     err == FALSE
                 IN SplitLoop(rows, i + 1, i,
                              IF err THEN totRowsAffected + rowsAffected
                              ELSE totRowsAffected,
                              aff + rowsAffected, Append(subs, pkg), env)
    ELSE SplitLoop(rows, i + 1, lastFrom, totRowsAffected, aff, subs, env)

\* conn._execBulk for the rows of one stmt.exec
_execBulk(rows) ==
    IF ~hasLob \/ Len(rows) = 1
    THEN {[out |-> "ok", ret |-> a, aff |-> a, subs |-> <<rows>>] : a \in AffChoices(rows)}
         \cup {[out |-> "failed", ret |-> 0, aff |-> 0, subs |-> <<rows>>]}
    ELSE {SplitLoop(rows, 1, 0, 0, 0, <<>>, env) : env \in SplitEnvs(Len(rows))}

\* stmt.exec: refused by tryLock or isBad, or the result of _execBulk
exec(rows) ==
    {[out |-> "refused", ret |-> 0, aff |-> 0, subs |-> <<>>]} \cup _execBulk(rows)

\* the entry of execLog for an exec of rows with outcome o
LogEntry(rows, o) ==
    [rows |-> rows, out |-> o.out, ret |-> o.ret, aff |-> o.aff, subs |-> o.subs]

\* the Exec call returns
BReturn(val, n, err) ==
    /\ bret' = [val |-> val, n |-> n, err |-> err]
    /\ bpc' = "idle"

\* the result of a stmt.exec is returned as it is
BReturnExec(o) ==
    IF o.out = "panic"
    THEN bret' = NoBret /\ bpc' = "crashed"
    ELSE IF o.out = "ok"
    THEN BReturn("rowsAffected", o.ret, FALSE)
    ELSE BReturn("nil", 0, TRUE)

\* an execBulk that keeps the buffer when the exec of the flush fails
execBulk_keepFailed(arg, id, flushArg) ==
    LET nv1 == IF arg = "none" THEN nvargs ELSE Append(nvargs, id)
        nb1 == IF arg = "none" THEN numBulk ELSE numBulk + 1
        fl  == arg = "none" \/ flushArg \/ nb1 >= bulkSize
    IN IF ~fl \/ nb1 = 0
       THEN /\ nvargs' = nv1
            /\ numBulk' = nb1
            /\ execLog' = <<>>
            /\ BReturn("noRows", 0, FALSE)
       ELSE \E o \in exec(nv1) :
               /\ execLog' = <<LogEntry(nv1, o)>>
               /\ nvargs' = IF o.out = "ok" THEN <<>> ELSE nv1
               /\ numBulk' = IF o.out = "ok" THEN 0 ELSE nb1
               /\ BReturnExec(o)

\* stmt.execBulk
execBulk(arg, id, flushArg) ==
    LET nv1 == IF arg = "none" THEN nvargs ELSE Append(nvargs, id)
        nb1 == IF arg = "none" THEN numBulk ELSE numBulk + 1
        fl  == arg = "none" \/ flushArg \/ nb1 >= bulkSize
    IN IF ~fl \/ nb1 = 0
       THEN /\ nvargs' = nv1
            /\ numBulk' = nb1
            /\ execLog' = <<>>
            /\ BReturn("noRows", 0, FALSE)
       ELSE \E o \in exec(nv1) :
               /\ execLog' = <<LogEntry(nv1, o)>>
               /\ nvargs' = <<>>
               /\ numBulk' = 0
               /\ BReturnExec(o)

\* number of packages of execMany for numRow rows
numPack(numRow) ==
    (numRow \div bulkSize) + (IF numRow % bulkSize # 0 THEN 1 ELSE 0)

\* stmt.execMany up to its package loop
execMany(n) ==
    IF Len(nvargs) # 0
    THEN /\ BReturn("noRows", 0, TRUE)
         /\ UNCHANGED <<nvargs, em>>
    ELSE /\ nvargs' = <<>>
         /\ IF numPack(n) = 0
            THEN BReturn("rowsAffected", 0, FALSE) /\ UNCHANGED em
            ELSE /\ em' = [n |-> n, p |-> 0, tot |-> 0]
                 /\ bpc' = "many"
                 /\ bret' = NoBret

\* one Exec call on the statement: CheckNamedValue for every argument, then
\* stmt.ExecContext
ExecContext(tok, arg, n) ==
    /\ bpc = "idle"
    /\ arg \in {"row", "badRow"} => rowSeq < MaxRows
    /\ arg \notin {"many", "manyBad"} => n = 0
    /\ LET cnv == CheckNamedValue(tok, arg)
           id  == rowSeq + 1
       IN /\ bulk' = cnv.bulk
          /\ rowSeq' = IF arg \in {"row", "badRow"} THEN id ELSE rowSeq
          /\ bin' = [tok |-> tok, arg |-> arg, n |-> n, bulk |-> cnv.bulk,
                     buffered |-> nvargs, flush |-> flush]
          /\ IF cnv.err
             THEN \* database/sql returns the error without calling ExecContext
                  /\ flush' = cnv.flush
                  /\ many' = cnv.many
                  /\ execLog' = <<>>
                  /\ BReturn("nil", 0, TRUE)
                  /\ UNCHANGED <<nvargs, numBulk, em>>
             ELSE IF cnv.bulk
             THEN /\ flush' = FALSE
                  /\ many' = cnv.many
                  /\ UNCHANGED em
                  /\ IF arg = "short"
                     THEN /\ execLog' = <<>>
                          /\ BReturn("nil", 0, TRUE)
                          /\ UNCHANGED <<nvargs, numBulk>>
                     ELSE execBulk(arg, id, cnv.flush)
             ELSE IF cnv.many
             THEN /\ many' = FALSE
                  /\ flush' = cnv.flush
                  /\ execLog' = <<>>
                  /\ UNCHANGED numBulk
                  /\ IF arg # "many"
                     THEN BReturn("nil", 0, TRUE) /\ UNCHANGED <<nvargs, em>>
                     ELSE execMany(n)
             ELSE /\ flush' = cnv.flush
                  /\ many' = cnv.many
                  /\ UNCHANGED <<nvargs, numBulk, em>>
                  /\ IF arg # "row"
                     THEN execLog' = <<>> /\ BReturn("nil", 0, TRUE)
                     ELSE \E o \in exec(<<id>>) :
                             /\ execLog' = <<LogEntry(<<id>>, o)>>
                             /\ BReturnExec(o)
    /\ UNCHANGED <<bulkSize, hasLob>>
    /\ UNCHANGED <<connVars, dsnVars, moreVars>>

\* the rows of package p of a composite argument of numRow rows
Package(p, numRow) ==
    LET startRow == p * bulkSize
        endRow   == min(startRow + bulkSize, numRow)
    IN [i \in 1..(endRow - startRow) |-> startRow + i - 1]

\* one turn of the package loop of stmt.execMany: fill, then stmt.exec
execManyPackage ==
    /\ bpc = "many"
    /\ LET pkg == Package(em.p, em.n)
       IN \/ \* variant.fill fails
             /\ BReturn("rowsAffected", em.tot, TRUE)
             /\ em' = NoEm
             /\ UNCHANGED execLog
          \/ \E o \in exec(pkg) :
                /\ execLog' = Append(execLog, LogEntry(pkg, o))
                /\ IF o.out = "panic"
                   THEN bret' = NoBret /\ bpc' = "crashed" /\ em' = NoEm
                   ELSE IF o.out # "ok"
                   THEN BReturn("rowsAffected", em.tot, TRUE) /\ em' = NoEm
                   ELSE IF em.p + 1 = numPack(em.n)
                   THEN BReturn("rowsAffected", em.tot + o.ret, FALSE) /\ em' = NoEm
                   ELSE /\ em' = [em EXCEPT !.p = em.p + 1, !.tot = em.tot + o.ret]
                        /\ UNCHANGED <<bret, bpc>>
    /\ UNCHANGED <<bulk, flush, many, bulkSize, numBulk, nvargs, hasLob, rowSeq, bin>>
    /\ UNCHANGED <<connVars, dsnVars, moreVars>>

(***************************************************************************)
(* parseDSN and DSN.String.  A DSN string is held as the URL net/url reads *)
(* from it and writes to it: user information, host and the query as the   *)
(* list of its key=value pairs.                                            *)
(***************************************************************************)
\* largest number of query parameters of a DSN string
MaxQuery == 3
\* time.Second in the unit the model keeps a time.Duration in (milliseconds)
Second == 1000

DSNDefaultSchema == "defaultSchema"
DSNTimeout == "timeout"
DSNPingInterval == "pingInterval"
DSNTLSRootCAFile == "TLSRootCAFile"
DSNTLSServerName == "TLSServerName"
DSNTLSInsecureSkipVerify == "TLSInsecureSkipVerify"

\* url.Userinfo: absent, a name, or a name and a password
NoUser == [set |-> FALSE, name |-> "", pwSet |-> FALSE, pw |-> ""]
UserInfos ==
    {NoUser} \cup
    {[set |-> TRUE, name |-> n, pwSet |-> FALSE, pw |-> ""] : n \in {"", "u"}} \cup
    {[set |-> TRUE, name |-> n, pwSet |-> TRUE, pw |-> w] : n \in {"", "u"}, w \in {"", "pw"}}

\* key=value pairs a DSN string is built from
QueryPairs ==
    {[k |-> DSNDefaultSchema, v |-> x] : x \in {"", "S"}} \cup
    {[k |-> DSNTimeout, v |-> x] : x \in {"60", "-1", "007", "x"}} \cup
    {[k |-> DSNPingInterval, v |-> x] : x \in {"0", "+5"}} \cup
    {[k |-> DSNTLSServerName, v |-> x] : x \in {"", "srv"}} \cup
    {[k |-> DSNTLSInsecureSkipVerify, v |-> x] : x \in {"", "F", "x"}} \cup
    {[k |-> DSNTLSRootCAFile, v |-> x] : x \in {"a.pem", "b.pem"}} \cup
    {[k |-> "locale", v |-> "en"]}

SeqsUpTo(S, n) == UNION {[1..m -> S] : m \in 0..n}

\* the DSN strings looked at: the empty string, a string url.Parse rejects,
\* and URLs of up to n key=value pairs
DSNStrings(n) ==
    {[kind |-> "empty", user |-> NoUser, host |-> "", query |-> <<>>],
     [kind |-> "invalid", user |-> NoUser, host |-> "", query |-> <<>>]} \cup
    {[kind |-> "url", user |-> u, host |-> h, query |-> q] :
        u \in UserInfos, h \in {"", "h:30015"}, q \in SeqsUpTo(QueryPairs, n)}

NoDSNString == [kind |-> "empty", user |-> NoUser, host |-> "", query |-> <<>>]
NoTLS == [set |-> FALSE, ServerName |-> "", InsecureSkipVerify |-> FALSE, RootCAFiles |-> <<>>]
NoDSN == [host |-> "", username |-> "", password |-> "", defaultSchema |-> "",
          timeout |-> 0, pingInterval |-> 0, tls |-> NoTLS]
NoParse == [err |-> "none", dsn |-> NoDSN]

\* strconv.Atoi on the strings of QueryPairs
Atoi(s) ==
    CASE s = "0"   -> [ok |-> TRUE, n |-> 0]
      [] s = "60"  -> [ok |-> TRUE, n |-> 60]
      [] s = "-1"  -> [ok |-> TRUE, n |-> 0 - 1]
      [] s = "007" -> [ok |-> TRUE, n |-> 7]
      [] s = "+5"  -> [ok |-> TRUE, n |-> 5]
      [] s = "7"   -> [ok |-> TRUE, n |-> 7]
      [] s = "5"   -> [ok |-> TRUE, n |-> 5]
      [] OTHER     -> [ok |-> FALSE, n |-> 0]

\* fmt.Sprintf("%d", n) on the values Atoi yields
FormatInt(n) ==
    CASE n = 0     -> "0"
      [] n = 60    -> "60"
      [] n = 0 - 1 -> "-1"
      [] n = 7     -> "7"
      [] n = 5     -> "5"
      [] OTHER     -> "?"

\* strconv.ParseBool
ParseBool(s) ==
    IF s \in {"1", "t", "T", "TRUE", "true", "True"} THEN [ok |-> TRUE, b |-> TRUE]
    ELSE IF s \in {"0", "f", "F", "FALSE", "false", "False"} THEN [ok |-> TRUE, b |-> FALSE]
    ELSE [ok |-> FALSE, b |-> FALSE]

\* strconv.FormatBool
FormatBool(b) == IF b THEN "true" ELSE "false"

\* url.URL.Query: the values of key k, in the order they appear
QueryValues(q, k) ==
    LET sel == SelectSeq(q, LAMBDA e : e.k = k)
    IN [i \in 1..Len(sel) |-> sel[i].v]

QueryKeys(q) == {q[i].k : i \in 1..Len(q)}

\* the error parseDSN returns for key k with values v, "nil" if none
KeyError(k, v) ==
    CASE k = DSNDefaultSchema ->
             IF Len(v) # 1 THEN "invalidNumberOfParameters" ELSE "nil"
      [] k \in {DSNTimeout, DSNPingInterval} ->
             IF Len(v) # 1 THEN "invalidNumberOfParameters"
             ELSE IF ~Atoi(v[1]).ok THEN "parseError" ELSE "nil"
      [] k = DSNTLSServerName ->
             IF Len(v) # 1 THEN "invalidNumberOfParameters" ELSE "nil"
      [] k = DSNTLSInsecureSkipVerify ->
             IF Len(v) > 1 THEN "invalidNumberOfParameters"
             ELSE IF Len(v) > 0 /\ v[1] # "" /\ ~ParseBool(v[1]).ok THEN "parseError"
             ELSE "nil"
      [] k = DSNTLSRootCAFile ->
             IF Len(v) = 0 THEN "invalidNumberOfParameters" ELSE "nil"
      [] OTHER -> "parameterNotSupported"

\* the errors the loop over u.Query() can stop with (map order is random)
ParseErrors(q) == {KeyError(k, QueryValues(q, k)) : k \in QueryKeys(q)} \ {"nil"}

\* the DSN parseDSN builds from an URL whose parameters are all accepted
BuildDSN(u) ==
    LET q == u.query
        has(k) == k \in QueryKeys(q)
        val(k) == QueryValues(q, k)[1]
        insecure == IF ~has(DSNTLSInsecureSkipVerify) THEN FALSE
                    ELSE IF val(DSNTLSInsecureSkipVerify) = "" THEN TRUE
                    ELSE ParseBool(val(DSNTLSInsecureSkipVerify)).b
    IN [host          |-> u.host,
        username      |-> IF u.user.set THEN u.user.name ELSE "",
        password      |-> IF u.user.set THEN u.user.pw ELSE "",
        defaultSchema |-> IF has(DSNDefaultSchema) THEN val(DSNDefaultSchema) ELSE "",
        timeout       |-> IF has(DSNTimeout) THEN Atoi(val(DSNTimeout)).n * Second ELSE 0,
        pingInterval  |-> IF has(DSNPingInterval)
                          THEN Atoi(val(DSNPingInterval)).n * Second ELSE 0,
        tls           |-> [set |-> has(DSNTLSServerName) \/ has(DSNTLSInsecureSkipVerify)
                                     \/ has(DSNTLSRootCAFile),
                           ServerName |-> IF has(DSNTLSServerName)
                                          THEN val(DSNTLSServerName) ELSE "",
                           InsecureSkipVerify |-> insecure,
                           RootCAFiles |-> QueryValues(q, DSNTLSRootCAFile)]]

\* parseDSN: the results it can return for the DSN string s
parseDSN(s) ==
    IF s.kind = "empty" THEN {[err |-> "empty", dsn |-> NoDSN]}
    ELSE IF s.kind = "invalid" THEN {[err |-> "url", dsn |-> NoDSN]}
    ELSE IF ParseErrors(s.query) # {}
    THEN {[err |-> e, dsn |-> NoDSN] : e \in ParseErrors(s.query)}
    ELSE {[err |-> "nil", dsn |-> BuildDSN(s)]}

\* Go's truncating integer division
GoDiv(a, b) == IF a >= 0 THEN a \div b ELSE 0 - ((0 - a) \div b)

\* the pair list url.Values.Encode writes: keys in byte order, the values of
\* a key in the order they were added
Encode(d) ==
    (IF d.tls.set
     THEN <<[k |-> DSNTLSInsecureSkipVerify, v |-> FormatBool(d.tls.InsecureSkipVerify)]>>
          \o [i \in 1..Len(d.tls.RootCAFiles) |->
                 [k |-> DSNTLSRootCAFile, v |-> d.tls.RootCAFiles[i]]]
          \o (IF d.tls.ServerName # ""
              THEN <<[k |-> DSNTLSServerName, v |-> d.tls.ServerName]>> ELSE <<>>)
     ELSE <<>>)
    \o (IF d.defaultSchema # ""
        THEN <<[k |-> DSNDefaultSchema, v |-> d.defaultSchema]>> ELSE <<>>)
    \o (IF d.pingInterval # 0
        THEN <<[k |-> DSNPingInterval, v |-> FormatInt(GoDiv(d.pingInterval, Second))]>>
        ELSE <<>>)
    \o (IF d.timeout # 0
        THEN <<[k |-> DSNTimeout, v |-> FormatInt(GoDiv(d.timeout, Second))]>>
        ELSE <<>>)

\* DSN.String
String(d) ==
    [kind  |-> "url",
     user  |-> IF d.username # "" /\ d.password # ""
               THEN [set |-> TRUE, name |-> d.username, pwSet |-> TRUE, pw |-> d.password]
               ELSE IF d.username # ""
               THEN [set |-> TRUE, name |-> d.username, pwSet |-> FALSE, pw |-> ""]
               ELSE NoUser,
     host  |-> d.host,
     query |-> Encode(d)]

\* nothing is parsed
DSNIdle ==
    /\ dsnIn = NoDSNString
    /\ dsn = NoParse
    /\ dsnStr = NoDSNString
    /\ dsn2 = NoParse
    /\ dpc = "start"

\* a DSN string is given
DSNInit ==
    /\ dsnIn \in DSNStrings(MaxQuery)
    /\ dsn = NoParse
    /\ dsnStr = NoDSNString
    /\ dsn2 = NoParse
    /\ dpc = "start"

\* d, err := parseDSN(s)
Parse ==
    /\ dpc = "start"
    /\ \E r \in parseDSN(dsnIn) :
         /\ dsn' = r
         /\ dpc' = IF r.err = "nil" THEN "parsed" ELSE "rejected"
    /\ UNCHANGED <<dsnIn, dsnStr, dsn2>>
    /\ UNCHANGED <<connVars, bulkVars, moreVars>>

\* s2 := d.String()
Stringify ==
    /\ dpc = "parsed"
    /\ dsnStr' = String(dsn.dsn)
    /\ dpc' = "printed"
    /\ UNCHANGED <<dsnIn, dsn, dsn2>>
    /\ UNCHANGED <<connVars, bulkVars, moreVars>>

\* d2, err := parseDSN(s2)
Reparse ==
    /\ dpc = "printed"
    /\ \E r \in parseDSN(dsnStr) :
         dsn2' = r
    /\ dpc' = "reparsed"
    /\ UNCHANGED <<dsnIn, dsn, dsnStr>>
    /\ UNCHANGED <<connVars, bulkVars, moreVars>>

(***************************************************************************)
(* connAttrs: the setters of the attributes with bounds.  An int that can  *)
(* pass math.MaxInt32 is held as hi * 2^16 + lo with 0 <= lo < 2^16.       *)
(***************************************************************************)
\* the int n, 0 <= n < 2^16
Wide(n) == [hi |-> 0, lo |-> n]
\* a < b
WLess(a, b) == a.hi < b.hi \/ (a.hi = b.hi /\ a.lo < b.lo)

\* math.MaxInt32
MaxNumArg == [hi |-> 32767, lo |-> 65535]

defaultBulkSize == Wide(10000)
defaultTimeout == 300 * Second
minTimeout == 0 * Second
minBulkSize == Wide(1)
maxBulkSize == MaxNumArg
defaultFetchSize == 128
defaultLobChunkSize == 8192
minFetchSize == 1
minLobChunkSize == 128
maxLobChunkSize == 16384

\* p.DfvLevel8 and the levels p.IsSupportedDfv accepts
DfvLevel8 == 8
defaultDfv == DfvLevel8
SupportedDfvs == {1, 4, 6, DfvLevel8}
IsSupportedDfv(dfv) == dfv \in SupportedDfvs

\* arguments the setters are called with
TimeoutArgs == {0 - Second, 0 - 1, 0, 1, Second, defaultTimeout}
BulkSizeArgs ==
    {[hi |-> 0 - 1, lo |-> 65535], Wide(0), Wide(1), Wide(2), defaultBulkSize,
     [hi |-> 32767, lo |-> 65534], MaxNumArg, [hi |-> 32768, lo |-> 0],
     [hi |-> 40000, lo |-> 7]}
FetchSizeArgs == {0 - 5, 0, 1, 2, defaultFetchSize}
LobChunkSizeArgs == {0 - 1, 0, 127, 128, 129, defaultLobChunkSize, 16383, 16384, 16385, 70000}
DfvArgs == {0 - 1, 0, 1, 2, 3, 4, 5, 6, 7, 8, 9}

NoAttrSet == [attr |-> "none", arg |-> 0]

\* newConnAttrs
AttrInit ==
    /\ _timeout = defaultTimeout
    /\ _bulkSize = defaultBulkSize
    /\ _fetchSize = defaultFetchSize
    /\ _lobChunkSize = defaultLobChunkSize
    /\ _dfv = defaultDfv
    /\ attrSet = NoAttrSet

\* no connector is looked at
AttrIdle == AttrInit

\* the value _setTimeout stores
_setTimeout(timeout) == IF timeout < minTimeout THEN minTimeout ELSE timeout

\* a _setBulkSize without the upper bound
_setBulkSize_noUpper(size) ==
    IF WLess(size, minBulkSize) THEN minBulkSize ELSE size

\* the value _setBulkSize stores
_setBulkSize(size) ==
    CASE WLess(size, minBulkSize) -> minBulkSize
      [] WLess(maxBulkSize, size) -> maxBulkSize
      [] OTHER                    -> size

\* the value _setFetchSize stores
_setFetchSize(fetchSize) == IF fetchSize < minFetchSize THEN minFetchSize ELSE fetchSize

\* the value setLobChunkSize stores
_setLobChunkSize(lobChunkSize) ==
    CASE lobChunkSize < minLobChunkSize -> minLobChunkSize
      [] lobChunkSize > maxLobChunkSize -> maxLobChunkSize
      [] OTHER                          -> lobChunkSize

\* the value setDfv stores
_setDfv(dfv) == IF ~IsSupportedDfv(dfv) THEN defaultDfv ELSE dfv

setTimeout ==
    \E timeout \in TimeoutArgs :
        /\ _timeout' = _setTimeout(timeout)
        /\ attrSet' = [attr |-> "timeout", arg |-> timeout]
        /\ UNCHANGED <<_bulkSize, _fetchSize, _lobChunkSize, _dfv>>
        /\ UNCHANGED exAttrs

setBulkSize ==
    \E size \in BulkSizeArgs :
        /\ _bulkSize' = _setBulkSize(size)
        /\ attrSet' = [attr |-> "bulkSize", arg |-> size]
        /\ UNCHANGED <<_timeout, _fetchSize, _lobChunkSize, _dfv>>
        /\ UNCHANGED exAttrs

setFetchSize ==
    \E fetchSize \in FetchSizeArgs :
        /\ _fetchSize' = _setFetchSize(fetchSize)
        /\ attrSet' = [attr |-> "fetchSize", arg |-> fetchSize]
        /\ UNCHANGED <<_timeout, _bulkSize, _lobChunkSize, _dfv>>
        /\ UNCHANGED exAttrs

setLobChunkSize ==
    \E lobChunkSize \in LobChunkSizeArgs :
        /\ _lobChunkSize' = _setLobChunkSize(lobChunkSize)
        /\ attrSet' = [attr |-> "lobChunkSize", arg |-> lobChunkSize]
        /\ UNCHANGED <<_timeout, _bulkSize, _fetchSize, _dfv>>
        /\ UNCHANGED exAttrs

setDfv ==
    \E dfv \in DfvArgs :
        /\ _dfv' = _setDfv(dfv)
        /\ attrSet' = [attr |-> "dfv", arg |-> dfv]
        /\ UNCHANGED <<_timeout, _bulkSize, _fetchSize, _lobChunkSize>>
        /\ UNCHANGED exAttrs

(***************************************************************************)
(* Functions of the protocol layer, one call at a time: fnArg is the       *)
(* input, fnRes the result.                                                *)
(***************************************************************************)
NoFn == "none"

\* no function is called
FnIdle ==
    /\ fnArg = NoFn
    /\ fnRes = NoFn
    /\ fnpc = "idle"

\* the call of function f on one of the inputs args
FnInit(f, args) ==
    /\ fnArg \in args
    /\ fnRes = NoFn
    /\ fnpc = f

\* the call returns r
FnReturn(r) ==
    /\ fnRes' = r
    /\ fnpc' = "done"
    /\ UNCHANGED fnArg
    /\ UNCHANGED exFn

(***************************************************************************)
(* conn._execDirect, from the reply to the result.  A reply is its         *)
(* function code and its parts; a RowsAffected part is held as the total   *)
(* its Total() gives.                                                      *)
(***************************************************************************)
\* largest number of parts of a reply
MaxParts == 2
\* largest total of a RowsAffected part
MaxTotal == 2

FcDDL == "FcDDL"
FunctionCodes == {FcDDL, "FcInsert", "FcSelect"}
PkRowsAffected == "PkRowsAffected"
Parts ==
    {[kind |-> PkRowsAffected, total |-> t] : t \in 0..MaxTotal} \cup
    {[kind |-> "PkStatementContext", total |-> 0]}

\* the exchange of _execDirect: Write fails, IterateParts fails, or a reply
ExecDirectReplies ==
    [fc : FunctionCodes, parts : SeqsUpTo(Parts, MaxParts),
     out : {"writeErr", "readErr", "ok"}]

\* numRow after the callback of IterateParts has seen parts
RECURSIVE IterateParts(_, _)
IterateParts(parts, numRow) ==
    IF parts = <<>> THEN numRow
    ELSE IterateParts(Tail(parts),
                      IF Head(parts).kind = PkRowsAffected THEN Head(parts).total
                      ELSE numRow)

\* an _execDirect that does not look at the function code
_execDirect_noDDL(reply) ==
    IF reply.out # "ok"
    THEN [val |-> "nil", n |-> 0, err |-> TRUE]
    ELSE [val |-> "rowsAffected", n |-> IterateParts(reply.parts, 0), err |-> FALSE]

\* conn._execDirect
_execDirect(reply) ==
    IF reply.out = "writeErr"
    THEN [val |-> "nil", n |-> 0, err |-> TRUE]
    ELSE LET numRow == IterateParts(reply.parts, 0)
         IN IF reply.out = "readErr"
            THEN [val |-> "nil", n |-> 0, err |-> TRUE]
            ELSE IF reply.fc = FcDDL
            THEN [val |-> "noRows", n |-> 0, err |-> FALSE]
            ELSE [val |-> "rowsAffected", n |-> numRow, err |-> FALSE]

execDirect ==
    /\ fnpc = "_execDirect"
    /\ FnReturn(_execDirect(fnArg))

(***************************************************************************)
(* subPrmsSize: the size of a sub parameter list of the authentication     *)
(* parts, as bytes.                                                        *)
(***************************************************************************)
maxSubPrmsSize1ByteLen == 245
subPrmsSize2ByteIndicator == 255
MaxUint16 == 65535

\* the sizes encoded: all an uint16 holds and the first beyond
SubPrmsSizes == 0..(MaxUint16 + 2)

\* byte(s) and uint16(s) of an int s >= 0, the bytes of an uint16 in big
\* endian order and the uint16 of two bytes in big endian order
Byte(n) == n % 256
Uint16(n) == n % 65536
BigEndianPutUint16(n) == <<n \div 256, n % 256>>
BigEndianUint16(b) == b[1] * 256 + b[2]

subPrmsSize_fieldSize(n) == IF n > maxSubPrmsSize1ByteLen THEN 3 ELSE 1

\* an encode that writes the uint16 in little endian order
subPrmsSize_encode_littleEndian(n) ==
    CASE n <= maxSubPrmsSize1ByteLen -> [bytes |-> <<Byte(n)>>, err |-> FALSE]
      [] n <= MaxUint16 ->
             [bytes |-> <<subPrmsSize2ByteIndicator, Uint16(n) % 256, Uint16(n) \div 256>>,
              err |-> FALSE]
      [] OTHER -> [bytes |-> <<>>, err |-> TRUE]

\* subPrmsSize.encode: the bytes written and whether an error is returned
subPrmsSize_encode(n) ==
    CASE n <= maxSubPrmsSize1ByteLen -> [bytes |-> <<Byte(n)>>, err |-> FALSE]
      [] n <= MaxUint16 ->
             [bytes |-> <<subPrmsSize2ByteIndicator>> \o BigEndianPutUint16(Uint16(n)),
              err |-> FALSE]
      [] OTHER -> [bytes |-> <<>>, err |-> TRUE]

\* subPrmsSize.decode on the bytes b: the size, or a panic
subPrmsSize_decode(b) ==
    CASE b[1] <= maxSubPrmsSize1ByteLen -> [size |-> b[1], panic |-> FALSE]
      [] b[1] = subPrmsSize2ByteIndicator ->
             [size |-> BigEndianUint16(SubSeq(b, 2, 3)), panic |-> FALSE]
      [] OTHER -> [size |-> 0, panic |-> TRUE]

\* s.encode(e) and s.fieldSize()
subPrmsSizeEncode ==
    /\ fnpc = "subPrmsSize"
    /\ LET e == subPrmsSize_encode(fnArg)
       IN /\ fnRes' = [bytes |-> e.bytes, err |-> e.err,
                       fieldSize |-> subPrmsSize_fieldSize(fnArg), size |-> 0,
                       panic |-> FALSE]
          /\ fnpc' = IF e.err THEN "done" ELSE "encoded"
    /\ UNCHANGED fnArg
    /\ UNCHANGED exFn

\* s.decode(d) on the bytes written
subPrmsSizeDecode ==
    /\ fnpc = "encoded"
    /\ LET d == subPrmsSize_decode(fnRes.bytes)
       IN fnRes' = [fnRes EXCEPT !.size = d.size, !.panic = d.panic]
    /\ fnpc' = "decoded"
    /\ UNCHANGED fnArg
    /\ UNCHANGED exFn

(***************************************************************************)
(* The JWT authentication: init request, init reply, final request, final  *)
(* reply.  A parameter list is a sequence of parameters, each a CESU-8     *)
(* string or bytes.  A reply is the number of parameters it announces and  *)
(* the length indicated fields that follow; a read behind the last field   *)
(* latches the decoder's error and yields the zero value.                  *)
(***************************************************************************)
MaxReplyFields == 2

MtJWT == "JWT"

LogonNames == {"", "USER123"}
Tokens == {"dummy token", "other token"}
FieldVals == {MtJWT, "X509", "USER123", "5be8f43e"}
AuthInputs == [logonname : LogonNames, token : Tokens]

Fields == UNION {[1..n -> FieldVals] : n \in 0..MaxReplyFields}
AuthReplies == [numPrm : 1..3, fields : Fields]

\* Prms.AddCESU8String, Prms.addString / addBytes, Prms.addEmpty
AddCESU8String(prms, str) == Append(prms, [kind |-> "string", val |-> str])
addString(prms, str) == Append(prms, [kind |-> "bytes", val |-> str])
addEmpty(prms) == Append(prms, [kind |-> "bytes", val |-> ""])

\* the decoder of a reply and its reads
NewDecoder(reply) == [numPrm |-> reply.numPrm, fields |-> reply.fields, err |-> FALSE]
DecField(d) ==
    IF d.err \/ d.fields = <<>>
    THEN [val |-> "", d |-> [d EXCEPT !.fields = <<>>, !.err = TRUE]]
    ELSE [val |-> Head(d.fields), d |-> [d EXCEPT !.fields = Tail(d.fields)]]
DecError(d) == IF d.err THEN "decoder error" ELSE "nil"

NumPrm(d, expected) ==
    IF d.numPrm # expected THEN "invalid number of parameters" ELSE "nil"

checkAuthMethodType(mt, expected) == IF mt # expected THEN "invalid method" ELSE "nil"

NilCookie == ""
NewJWT(token) == [token |-> token, logonname |-> "", _cookie |-> NilCookie]
Cookie(a) == <<a.logonname, a._cookie>>

JWT_PrepareInitReq(a, prms) == addString(addString(prms, MtJWT), a.token)

\* the JWT after the decoding, the decoder and the error returned
JWT_InitRepDecode(a, d) ==
    LET f == DecField(d)
    IN [a |-> [a EXCEPT !.logonname = f.val], d |-> f.d, err |-> "nil"]

JWT_PrepareFinalReq(a, prms) ==
    addEmpty(addString(AddCESU8String(prms, a.logonname), MtJWT))

\* a decoding that takes the cookie whatever the method type is
JWT_FinalRepDecode_anyMethod(a, d) ==
    IF NumPrm(d, 2) # "nil"
    THEN [a |-> a, d |-> d, err |-> NumPrm(d, 2)]
    ELSE LET mt == DecField(d)
             ck == DecField(mt.d)
         IN [a |-> [a EXCEPT !._cookie = ck.val], d |-> ck.d, err |-> "nil"]

JWT_FinalRepDecode(a, d) ==
    IF NumPrm(d, 2) # "nil"
    THEN [a |-> a, d |-> d, err |-> NumPrm(d, 2)]
    ELSE LET mt == DecField(d)
         IN IF checkAuthMethodType(mt.val, MtJWT) # "nil"
            THEN [a |-> a, d |-> mt.d, err |-> checkAuthMethodType(mt.val, MtJWT)]
            ELSE LET ck == DecField(mt.d)
                 IN [a |-> [a EXCEPT !._cookie = ck.val], d |-> ck.d, err |-> "nil"]

\* Auth.InitRequest with the JWT as the one method added
InitRequest(logonname, a) == JWT_PrepareInitReq(a, AddCESU8String(<<>>, logonname))

\* AuthInitReply.decode: the method selected, the JWT and the error
AuthInitReply_decode(a, reply) ==
    LET d == NewDecoder(reply)
        mt == DecField(d)
    IN CASE NumPrm(d, 2) # "nil" -> [method |-> "nil", a |-> a, err |-> NumPrm(d, 2)]
         [] NumPrm(d, 2) = "nil" /\ mt.val # MtJWT ->
                [method |-> "nil", a |-> a, err |-> "invalid method type"]
         [] OTHER ->
                LET r == JWT_InitRepDecode(a, mt.d)
                IN [method |-> MtJWT, a |-> r.a,
                    err |-> IF r.err # "nil" THEN r.err ELSE DecError(r.d)]

FinalRequest(a) == JWT_PrepareFinalReq(a, <<>>)

\* AuthFinalReply.decode: the JWT and the error
AuthFinalReply_decode(a, reply) ==
    LET r == JWT_FinalRepDecode(a, NewDecoder(reply))
    IN [a |-> r.a, err |-> IF r.err # "nil" THEN r.err ELSE DecError(r.d)]

NoReply == [numPrm |-> 0, fields |-> <<>>]

authInitRequest ==
    /\ fnpc = "jwt"
    /\ LET a == NewJWT(fnArg.token)
       IN fnRes' = [jwt |-> a, initRequest |-> InitRequest(fnArg.logonname, a),
                    initReply |-> NoReply, finalRequest |-> <<>>,
                    finalReply |-> NoReply, err |-> "nil"]
    /\ fnpc' = "initRequest"
    /\ UNCHANGED fnArg
    /\ UNCHANGED exFn

authInitReply ==
    /\ fnpc = "initRequest"
    /\ \E reply \in AuthReplies :
          LET r == AuthInitReply_decode(fnRes.jwt, reply)
          IN /\ fnRes' = [fnRes EXCEPT !.jwt = r.a, !.initReply = reply, !.err = r.err]
             /\ fnpc' = IF r.err = "nil" THEN "initReply" ELSE "authFailed"
    /\ UNCHANGED fnArg
    /\ UNCHANGED exFn

authFinalRequest ==
    /\ fnpc = "initReply"
    /\ fnRes' = [fnRes EXCEPT !.finalRequest = FinalRequest(fnRes.jwt)]
    /\ fnpc' = "finalRequest"
    /\ UNCHANGED fnArg
    /\ UNCHANGED exFn

authFinalReply ==
    /\ fnpc = "finalRequest"
    /\ \E reply \in AuthReplies :
          LET r == AuthFinalReply_decode(fnRes.jwt, reply)
          IN fnRes' = [fnRes EXCEPT !.jwt = r.a, !.finalReply = reply, !.err = r.err]
    /\ fnpc' = "finalReply"
    /\ UNCHANGED fnArg
    /\ UNCHANGED exFn

(***************************************************************************)
(* ParameterField: the options and the mode of a parameter.                *)
(***************************************************************************)
poMandatory == 1
poOptional == 2
poDefault == 4

PmIn == 1
pmInout == 2
PmOut == 4

\* the fields: every combination of the option bits and of the mode bits
ParameterFields ==
    [parameterOptions : 0..(poMandatory + poOptional + poDefault),
     Mode : 0..(PmIn + pmInout + PmOut),
     FieldName : {"A", "B"}]

Nullable(f) == f.parameterOptions = poOptional

In(f) == f.Mode = pmInout \/ f.Mode = PmIn

Out(f) == f.Mode = pmInout \/ f.Mode = PmOut

Name(f) == f.FieldName

fieldNullable ==
    /\ fnpc = "ParameterField"
    /\ FnReturn([fn |-> "Nullable", val |-> Nullable(fnArg)])

fieldIn ==
    /\ fnpc = "ParameterField"
    /\ FnReturn([fn |-> "In", val |-> In(fnArg)])

fieldOut ==
    /\ fnpc = "ParameterField"
    /\ FnReturn([fn |-> "Out", val |-> Out(fnArg)])

(***************************************************************************)
(* OutputParameters.decode.  The part read is the outcome of each field's  *)
(* decodeRes, row by row, and the error the decoder has latched at the end.*)
(***************************************************************************)
MaxCols == 2
MaxOutRows == 2

OutputFieldLists == UNION {[1..n -> {"A", "B"}] : n \in 0..MaxCols}

\* the calls of decode: the fields, the DecodeErrors collected before, the
\* number of rows of the part, the cells whose decodeRes fails, the error
\* the decoder holds at the end
OutputParametersCalls ==
    {c \in [OutputFields : OutputFieldLists,
            DecodeErrors : {<<>>, <<[row |-> 0, fieldName |-> "Z"]>>},
            numArg : 0..MaxOutRows,
            fails : SUBSET (0..(MaxOutRows * MaxCols - 1)),
            decError : {"nil", "stream error"}] :
        c.fails \subseteq 0..(c.numArg * Len(c.OutputFields) - 1)}

\* the value of cell k and the DecodeErrors after the cells k..n-1
FieldValue(c, k) == IF k \in c.fails THEN "zero" ELSE "value"

RECURSIVE DecodeCells(_, _, _)
DecodeCells(c, k, errs) ==
    LET cols == Len(c.OutputFields)
    IN IF k >= c.numArg * cols
       THEN errs
       ELSE DecodeCells(c, k + 1,
                IF k \in c.fails
                THEN Append(errs, [row |-> k \div cols,
                                   fieldName |-> Name([FieldName |-> c.OutputFields[(k % cols) + 1]])])
                ELSE errs)

\* a decode that returns the error of a field
OutputParameters_decode_fieldError(c) ==
    [FieldValues |-> [k \in 1..(c.numArg * Len(c.OutputFields)) |-> FieldValue(c, k - 1)],
     DecodeErrors |-> DecodeCells(c, 0, c.DecodeErrors),
     err |-> IF c.fails # {} THEN "field error" ELSE c.decError]

OutputParameters_decode(c) ==
    [FieldValues |-> [k \in 1..(c.numArg * Len(c.OutputFields)) |-> FieldValue(c, k - 1)],
     DecodeErrors |-> DecodeCells(c, 0, c.DecodeErrors),
     err |-> c.decError]

outputParametersDecode ==
    /\ fnpc = "OutputParameters"
    /\ FnReturn(OutputParameters_decode(fnArg))

(***************************************************************************)
(* conn._authenticate: the two exchanges of the authentication and the     *)
(* selection of the method.  A method is its type; what it puts into the   *)
(* final request and how it decodes its part of a reply is an outcome.     *)
(***************************************************************************)
MtSCRAMSHA256 == "SCRAMSHA256"
MtSCRAMPBKDF2SHA256 == "SCRAMPBKDF2SHA256"
MtX509 == "X509"
MtSessionCookie == "SessionCookie"

MethodTypes == {MtSCRAMSHA256, MtSCRAMPBKDF2SHA256, MtX509, MtJWT, MtSessionCookie}

\* the methods added to an Auth
AuthMethods == [methods : SUBSET MethodTypes \ {{}}]

\* the replies to a message: the read fails, the reply has no authentication
\* part, or it has one: the number of parameters, the method type, the
\* outcome of the method's decoding and the error latched by the decoder
AuthPartReplies ==
    {[kind |-> k, numPrm |-> 0, mt |-> "", rep |-> "nil", decErr |-> "nil"] :
        k \in {"readErr", "noAuthPart"}} \cup
    [kind : {"auth"}, numPrm : 1..3, mt : MethodTypes \cup {"GSS"},
     rep : {"nil", "method error"}, decErr : {"nil", "decoder error"}]

\* a setMethod that takes whatever method type the reply names
setMethod_unchecked(methods, mt) == [method |-> mt, err |-> "nil"]

\* Auth.setMethod: the method selected and the error
setMethod(methods, mt) ==
    IF mt \in methods
    THEN [method |-> mt, err |-> "nil"]
    ELSE [method |-> "nil", err |-> "invalid method type"]

\* AuthInitReply.decode on an authentication part
InitReplyDecode(methods, method, reply) ==
    IF NumPrm(reply, 2) # "nil"
    THEN [method |-> method, err |-> NumPrm(reply, 2)]
    ELSE LET m == setMethod(methods, reply.mt)
         IN CASE m.err # "nil" -> m
              [] m.err = "nil" /\ reply.rep # "nil" -> [method |-> m.method, err |-> reply.rep]
              [] OTHER -> [method |-> m.method, err |-> reply.decErr]

NoAuthReply == [kind |-> "none", numPrm |-> 0, mt |-> "", rep |-> "nil", decErr |-> "nil"]

\* auth.InitRequest and the write of the Authenticate message
authenticateInitRequest ==
    /\ fnpc = "_authenticate"
    /\ \E w \in {"nil", "ErrBadConn"} :
          /\ fnRes' = [method |-> "nil", initReply |-> NoAuthReply, err |-> w,
                       log |-> IF w = "nil"
                               THEN <<[msg |-> "write Authenticate", by |-> "none"]>>
                               ELSE <<>>]
          /\ fnpc' = IF w = "nil" THEN "initRequest written" ELSE "returned"
    /\ UNCHANGED fnArg
    /\ UNCHANGED exFn

\* auth.InitReply and the read of the reply
authenticateInitReply ==
    /\ fnpc = "initRequest written"
    /\ \E reply \in AuthPartReplies :
          LET r == CASE reply.kind = "readErr" -> [method |-> fnRes.method, err |-> "ErrBadConn"]
                     [] reply.kind = "noAuthPart" -> [method |-> fnRes.method, err |-> "nil"]
                     [] OTHER -> InitReplyDecode(fnArg.methods, fnRes.method, reply)
          IN /\ fnRes' = [fnRes EXCEPT !.method = r.method, !.initReply = reply, !.err = r.err,
                                       !.log = IF reply.kind = "readErr" THEN @
                                               ELSE Append(@, [msg |-> "read init reply",
                                                               by |-> "none"])]
             /\ fnpc' = IF r.err = "nil" THEN "initReply read" ELSE "returned"
    /\ UNCHANGED fnArg
    /\ UNCHANGED exFn

\* auth.FinalRequest (a call on a nil method panics) and the write of the
\* Connect message
authenticateFinalRequest ==
    /\ fnpc = "initReply read"
    /\ IF fnRes.method = "nil"
       THEN /\ fnRes' = [fnRes EXCEPT !.err = "panic"]
            /\ fnpc' = "returned"
       ELSE \E e \in {"nil", "method error", "ErrBadConn"} :
               /\ e = "method error" => fnRes.method # MtJWT
               /\ fnRes' = [fnRes EXCEPT !.err = e,
                               !.log = IF e = "nil"
                                       THEN Append(@, [msg |-> "write Connect",
                                                       by |-> fnRes.method])
                                       ELSE @]
               /\ fnpc' = IF e = "nil" THEN "finalRequest written" ELSE "returned"
    /\ UNCHANGED fnArg
    /\ UNCHANGED exFn

\* auth.FinalReply and the read of the reply
authenticateFinalReply ==
    /\ fnpc = "finalRequest written"
    /\ \E k \in {"readErr", "noAuthPart", "auth"}, e \in {"nil", "method error", "decoder error"} :
          /\ k = "readErr" => e = "nil"
          /\ k = "noAuthPart" => e = "nil"
          /\ fnRes' = [fnRes EXCEPT !.err = IF k = "readErr" THEN "ErrBadConn" ELSE e,
                          !.log = IF k = "auth"
                                  THEN Append(@, [msg |-> "read final reply",
                                                  by |-> fnRes.method])
                                  ELSE @]
    /\ fnpc' = "returned"
    /\ UNCHANGED fnArg
    /\ UNCHANGED exFn

(***************************************************************************)
(* conn._execBulk, the split of the rows of a statement with a LOB         *)
(* parameter, step by step: _fetchFirstLobChunk for a row, then _exec for  *)
(* the rows since the last package.  Rows are numbered from 1.             *)
(***************************************************************************)
\* the calls: the number of rows (more than one), the rows with a LOB whose
\* first chunk is not all of its data, the row whose fetch fails and the row
\* at which _exec fails (0: none)
ExecBulkCalls ==
    UNION {[numRows : {n}, hasNext : SUBSET (1..n), fetchFail : 0..n, execFail : 0..n] :
              n \in 2..MaxRows}

\* a test that waits for the last row
ExecNow_lastRow(call, i) == i = call.numRows

\* hasNext || i == (numRows-1): row i ends a package
ExecNow(call, i) == i \in call.hasNext \/ i = call.numRows

\* the loop is entered: i, lastFrom and totRowsAffected are 0
execBulkSplit ==
    /\ fnpc = "_execBulk"
    /\ fnRes' = [i |-> 1, lastFrom |-> 0, totRowsAffected |-> 0, ev |-> <<>>, err |-> "nil"]
    /\ fnpc' = "fetch"
    /\ UNCHANGED fnArg
    /\ UNCHANGED exFn

\* c._fetchFirstLobChunk(nvargs[from:to]) and the test of hasNext and i
execBulkFetch ==
    /\ fnpc = "fetch"
    /\ LET i == fnRes.i
           ev == Append(fnRes.ev, [op |-> "fetch", from |-> i, to |-> i, aff |-> 0])
       IN IF fnArg.fetchFail = i
          THEN /\ fnRes' = [fnRes EXCEPT !.ev = ev, !.err = "fetch error"]
               /\ fnpc' = "returned"
          ELSE IF ExecNow(fnArg, i)
          THEN /\ fnRes' = [fnRes EXCEPT !.ev = ev]
               /\ fnpc' = "exec"
          ELSE /\ fnRes' = [fnRes EXCEPT !.ev = ev, !.i = i + 1]
               /\ fnpc' = "fetch"
    /\ UNCHANGED fnArg
    /\ UNCHANGED exFn

\* the rows totRowsAffected grows by: those of r.RowsAffected() when it
\* returns an error
AddRowsAffected(rowsAffected, err) == IF err # "nil" THEN rowsAffected ELSE 0

\* c._exec(pr, nvargs[lastFrom:to], true, commit), r.RowsAffected() and the
\* end of the turn; r is nil when _exec fails
execBulkExec ==
    /\ fnpc = "exec"
    /\ LET i == fnRes.i
       IN IF fnArg.execFail = i
          THEN /\ fnRes' = [fnRes EXCEPT !.err = "panic",
                               !.ev = Append(@, [op |-> "exec", from |-> fnRes.lastFrom + 1,
                                                 to |-> i, aff |-> 0])]
               /\ fnpc' = "returned"
          ELSE \E aff \in {0, i - fnRes.lastFrom} :
                  /\ fnRes' = [fnRes EXCEPT
                                  !.ev = Append(@, [op |-> "exec", from |-> fnRes.lastFrom + 1,
                                                    to |-> i, aff |-> aff]),
                                  !.totRowsAffected = @ + AddRowsAffected(aff, "nil"),
                                  !.lastFrom = i,
                                  !.i = i + 1]
                  /\ fnpc' = IF i = fnArg.numRows THEN "returned" ELSE "fetch"
    /\ UNCHANGED fnArg
    /\ UNCHANGED exFn

(***************************************************************************)
(* conn.decodeLobs and conn._decodeLobs: the download of a LOB.  A chunk   *)
(* is the sequence of the runes encoded in it, each with the number of its *)
(* bytes; the last one may be cut off.  The bytes of a binary LOB are      *)
(* runes of one byte.                                                      *)
(***************************************************************************)
MaxNumChar == 4
MaxLobChunkSize == 2

CESUMax == 6
RuneSizes == {1, 2, 3, CESUMax}

\* what hdb counts for a rune: 2 for a surrogate pair
HdbChars(r) == IF r.size = CESUMax THEN 2 ELSE 1

RECURSIVE NumHdbChars(_)
NumHdbChars(b) == IF b = <<>> THEN 0 ELSE HdbChars(Head(b)) + NumHdbChars(Tail(b))

\* the chunks of n characters (bytes, if not char based) at most
RECURSIVE FullChunks(_, _)
FullChunks(n, sizes) ==
    IF n = 0
    THEN {<<>>}
    ELSE LET shorter == FullChunks(n - 1, sizes)
         IN shorter \cup
            {Append(b, [size |-> z, full |-> TRUE]) :
                b \in shorter, z \in sizes}

Chunks(n, charBased) ==
    IF charBased
    THEN LET full == {b \in FullChunks(n, RuneSizes) : NumHdbChars(b) <= n}
         IN full \cup {Append(b, [size |-> z, full |-> FALSE]) :
                          b \in {c \in full : NumHdbChars(c) < n}, z \in RuneSizes \ {1}}
    ELSE FullChunks(n, {1})

\* cesu8.FullRune and the size cesu8.DecodeRune returns, on the first rune
FullRune(b) == Head(b).full
DecodeRuneSize(b) == Head(b).size

\* a count of one for every rune
RECURSIVE countChars_perRune(_, _)
countChars_perRune(b, charBased) ==
    IF ~charBased
    THEN [n |-> Len(b), err |-> "nil"]
    ELSE IF b = <<>>
    THEN [n |-> 0, err |-> "nil"]
    ELSE IF ~FullRune(b)
    THEN [n |-> 0, err |-> "lob chunk consists of incomplete CESU-8 runes"]
    ELSE LET rest == countChars_perRune(Tail(b), charBased)
         IN IF rest.err # "nil" THEN rest ELSE [n |-> 1 + rest.n, err |-> "nil"]

\* the countChars function decodeLobs passes to _decodeLobs
RECURSIVE countChars(_, _)
countChars(b, charBased) ==
    IF ~charBased
    THEN [n |-> Len(b), err |-> "nil"]
    ELSE IF b = <<>>
    THEN [n |-> 0, err |-> "nil"]
    ELSE IF ~FullRune(b)
    THEN [n |-> 0, err |-> "lob chunk consists of incomplete CESU-8 runes"]
    ELSE LET rest == countChars(Tail(b), charBased)
             numChars == 1 + (IF DecodeRuneSize(b) = CESUMax THEN 1 ELSE 0)
         IN IF rest.err # "nil" THEN rest ELSE [n |-> numChars + rest.n, err |-> "nil"]

chunkSize(numChar, ofs, lobChunkSize) ==
    IF numChar - ofs > lobChunkSize THEN lobChunkSize ELSE numChar - ofs

\* the descriptors: the first chunk comes with the descriptor and is the
\* last data if it holds all characters
LobOutDescrs ==
    UNION {[IsCharBased : {cb}, NumChar : {n}, lobChunkSize : {z},
            B : {b \in Chunks(min(z, n), cb) :
                    (b # <<>> /\ ~b[Len(b)].full) => NumHdbChars(b) < n}] :
              cb \in BOOLEAN, n \in 0..MaxNumChar, z \in 1..MaxLobChunkSize}

\* wr.Write(descr.B), eof and countChars(descr.B)
decodeLobsFirst ==
    /\ fnpc = "_decodeLobs"
    /\ LET c == countChars(fnArg.B, fnArg.IsCharBased)
           eof == NumHdbChars(fnArg.B) = fnArg.NumChar /\ c.err = "nil"
       IN /\ fnRes' = [Ofs |-> 0, ofs |-> c.n, eof |-> eof, B |-> fnArg.B,
                       received |-> NumHdbChars(fnArg.B), reqs |-> <<>>, err |-> c.err]
          /\ fnpc' = IF c.err # "nil" \/ eof THEN "returned" ELSE "request"
    /\ UNCHANGED fnArg
    /\ UNCHANGED exFn

\* lobRequest.Ofs, lobRequest.ChunkSize and the write of the request
decodeLobsRequest ==
    /\ fnpc = "request"
    /\ LET Ofs == fnRes.Ofs + fnRes.ofs
           ChunkSize == chunkSize(fnArg.NumChar, fnRes.ofs, fnArg.lobChunkSize)
       IN \E w \in {"nil", "ErrBadConn"} :
             /\ fnRes' = [fnRes EXCEPT !.Ofs = Ofs, !.err = w,
                             !.reqs = IF w = "nil"
                                      THEN Append(@, [Ofs |-> Ofs, ChunkSize |-> ChunkSize,
                                                      received |-> fnRes.received])
                                      ELSE @]
             /\ fnpc' = IF w = "nil" THEN "reply" ELSE "returned"
    /\ UNCHANGED fnArg
    /\ UNCHANGED exFn

\* the read of the reply: an error, a reply for another locator, or up to
\* ChunkSize of the characters still to come
decodeLobsReply ==
    /\ fnpc = "reply"
    /\ \/ \E e \in {"ErrBadConn", "invalid lob locator"} :
             /\ fnRes' = [fnRes EXCEPT !.err = e]
             /\ fnpc' = "returned"
       \/ LET req == fnRes.reqs[Len(fnRes.reqs)]
              left == fnArg.NumChar - fnRes.received
          IN \E b \in Chunks(min(req.ChunkSize, left), fnArg.IsCharBased) :
                LET c == countChars(b, fnArg.IsCharBased)
                    received == fnRes.received + NumHdbChars(b)
                    eof == received = fnArg.NumChar
                IN /\ b # <<>>
                   /\ ~b[Len(b)].full => NumHdbChars(b) < left
                   /\ fnRes' = [fnRes EXCEPT !.B = b, !.received = received,
                                   !.ofs = IF c.err = "nil" THEN c.n ELSE @,
                                   !.eof = IF c.err = "nil" THEN eof ELSE @,
                                   !.err = c.err]
                   /\ fnpc' = IF c.err # "nil" \/ eof THEN "returned" ELSE "request"
    /\ UNCHANGED fnArg
    /\ UNCHANGED exFn

(***************************************************************************)
(* conn.encodeLobs: the upload of the LOB arguments that were not written  *)
(* completely with the execute.  A descriptor is identified by the index   *)
(* of its argument and has a number of chunks left to fetch; FetchNext     *)
(* fetches one and sets the last data option with the last one.            *)
(***************************************************************************)
MaxLobs == 2
MaxChunks == 2

LocatorIDs == 1..2

\* the calls: the chunks left of each LOB argument, whether the arguments
\* are descriptors, and the locator ids of the reply to the execute
EncodeLobsCalls ==
    UNION {[left : [1..n -> 1..MaxChunks], isLobInDescr : BOOLEAN,
            ids : SeqsUpTo(LocatorIDs, MaxLobs + 1)] : n \in 0..MaxLobs}

\* descr.FetchNext(c.lobChunkSize)
FetchNext(descr) ==
    [descr EXCEPT !.left = @ - 1, !.isLastData = (descr.left - 1 = 0)]

\* the check that ids and descrs are in sync
InSync(descrs, ids) ==
    IF Len(descrs) # Len(ids)
    THEN "protocol error: invalid number of lob parameter ids - expected"
    ELSE IF \E i \in 1..Len(descrs) : descrs[i].ID # ids[i]
    THEN "protocol error: lob parameter id mismatch"
    ELSE "nil"

\* no descriptor removed
RemoveDone_none(descrs) == descrs

\* remove done descr
RECURSIVE RemoveDone(_)
RemoveDone(descrs) ==
    IF descrs = <<>>
    THEN <<>>
    ELSE IF ~Head(descrs).isLastData
    THEN <<Head(descrs)>> \o RemoveDone(Tail(descrs))
    ELSE RemoveDone(Tail(descrs))

\* the descriptors of the LOB arguments, each with its locator id
encodeLobsBuild ==
    /\ fnpc = "encodeLobs"
    /\ LET n == Len(fnArg.left)
           err == IF n > 0 /\ ~fnArg.isLobInDescr
                  THEN "protocol error: invalid lob parameter"
                  ELSE IF n > Len(fnArg.ids)
                  THEN "protocol error: invalid number of lob parameter ids"
                  ELSE "nil"
           descrs == IF err = "nil"
                     THEN [j \in 1..n |-> [arg |-> j, ID |-> fnArg.ids[j],
                                           left |-> fnArg.left[j], isLastData |-> FALSE]]
                     ELSE <<>>
       IN /\ fnRes' = [descrs |-> descrs, ids |-> fnArg.ids, reqs |-> <<>>,
                       checked |-> <<>>, err |-> err]
          /\ fnpc' = IF err = "nil" /\ descrs # <<>> THEN "write" ELSE "returned"
    /\ UNCHANGED fnArg
    /\ UNCHANGED exFn

\* one turn of the loop up to the write of the WriteLobRequest
encodeLobsWrite ==
    /\ fnpc = "write"
    /\ LET sync == InSync(fnRes.descrs, fnRes.ids)
           fetched == [i \in 1..Len(fnRes.descrs) |-> FetchNext(fnRes.descrs[i])]
       IN IF sync # "nil"
          THEN /\ fnRes' = [fnRes EXCEPT !.err = sync]
               /\ fnpc' = "returned"
          ELSE \E e \in {"nil", "fetch error", "ErrBadConn"} :
                  /\ fnRes' = [fnRes EXCEPT
                        !.descrs = IF e = "ErrBadConn" \/ e = "nil" THEN fetched ELSE @,
                        !.checked = Append(@, [descrs |-> fnRes.descrs, ids |-> fnRes.ids]),
                        !.reqs = IF e = "nil" THEN Append(@, fetched) ELSE @,
                        !.err = e]
                  /\ fnpc' = IF e = "nil" THEN "reply" ELSE "returned"
    /\ UNCHANGED fnArg
    /\ UNCHANGED exFn

\* the read of the reply, with or without a WriteLobReply part, and the
\* removal of the descriptors that are done
encodeLobsReply ==
    /\ fnpc = "reply"
    /\ \/ /\ fnRes' = [fnRes EXCEPT !.err = "ErrBadConn"]
          /\ fnpc' = "returned"
       \/ \E ids \in {fnRes.ids} \cup SeqsUpTo(LocatorIDs, MaxLobs) :
             LET descrs == RemoveDone(fnRes.descrs)
             IN /\ fnRes' = [fnRes EXCEPT !.ids = ids, !.descrs = descrs]
                /\ fnpc' = IF descrs # <<>> THEN "write" ELSE "returned"
    /\ UNCHANGED fnArg
    /\ UNCHANGED exFn

(***************************************************************************)
(* conn._readCall: the parts of the reply to a procedure call.  The        *)
(* content of a part is identified by its position in the reply.           *)
(***************************************************************************)
MaxCallParts == 4

CallPartKinds ==
    {"PkRowsAffected", "PkOutputParameters", "PkResultMetadata", "PkResultset",
     "PkResultsetID", "PkWriteLobReply"}

CallReplies == SeqsUpTo(CallPartKinds, MaxCallParts)

\* var qr *queryResult
NilQr == 0

\* &queryResult{conn: c}
NewQueryResult == [fields |-> 0, fieldValues |-> 0, rsID |-> 0]

\* the new query result replaces the last one
BeginQueryResult_replace(qrs, k) ==
    IF qrs = <<>>
    THEN <<[NewQueryResult EXCEPT !.fields = k]>>
    ELSE [qrs EXCEPT ![Len(qrs)] = [NewQueryResult EXCEPT !.fields = k]]

\* case p.PkResultMetadata: the query results of the call result after the
\* k-th part
BeginQueryResult(qrs, k) == Append(qrs, [NewQueryResult EXCEPT !.fields = k])

\* cr := &callResult{conn: c, outputFields: outputFields} and the variables
\* of the function
readCallStart ==
    /\ fnpc = "_readCall"
    /\ fnRes' = [k |-> 0, qrs |-> <<>>, qr |-> NilQr, fieldValues |-> 0, ids |-> 0,
                 numRow |-> 0, processed |-> <<>>, err |-> "nil"]
    /\ fnpc' = "IterateParts"
    /\ UNCHANGED fnArg
    /\ UNCHANGED exFn

\* the function IterateParts calls for the next part
readCallPart ==
    /\ fnpc = "IterateParts"
    /\ fnRes.k < Len(fnArg)
    /\ LET k == fnRes.k + 1
           kind == fnArg[k]
           read == [fnRes EXCEPT !.k = k,
                                 !.processed = Append(@, [part |-> k, qr |-> fnRes.qr])]
       IN CASE kind = "PkRowsAffected" ->
                 /\ fnRes' = [read EXCEPT !.numRow = k]
                 /\ fnpc' = "IterateParts"
            [] kind = "PkOutputParameters" ->
                 /\ fnRes' = [read EXCEPT !.fieldValues = k]
                 /\ fnpc' = "IterateParts"
            [] kind = "PkResultMetadata" ->
                 LET qrs == BeginQueryResult(fnRes.qrs, k)
                 IN /\ fnRes' = [read EXCEPT !.qrs = qrs, !.qr = Len(qrs),
                                    !.processed = Append(fnRes.processed,
                                                         [part |-> k, qr |-> Len(qrs)])]
                    /\ fnpc' = "IterateParts"
            [] kind = "PkResultset" ->
                 IF fnRes.qr = NilQr
                 THEN /\ fnRes' = [fnRes EXCEPT !.k = k, !.err = "panic"]
                      /\ fnpc' = "returned"
                 ELSE /\ fnRes' = [read EXCEPT !.qrs[fnRes.qr].fieldValues = k]
                      /\ fnpc' = "IterateParts"
            [] kind = "PkResultsetID" ->
                 IF fnRes.qr = NilQr
                 THEN /\ fnRes' = [fnRes EXCEPT !.k = k, !.err = "panic"]
                      /\ fnpc' = "returned"
                 ELSE /\ fnRes' = [read EXCEPT !.qrs[fnRes.qr].rsID = k]
                      /\ fnpc' = "IterateParts"
            [] kind = "PkWriteLobReply" ->
                 /\ fnRes' = [read EXCEPT !.ids = k]
                 /\ fnpc' = "IterateParts"
    /\ UNCHANGED fnArg
    /\ UNCHANGED exFn

\* the return of IterateParts: an error, or nil after the last part
readCallReturn ==
    /\ fnpc = "IterateParts"
    /\ \/ /\ fnRes' = [fnRes EXCEPT !.err = "ErrBadConn", !.qrs = <<>>, !.qr = NilQr,
                                    !.ids = 0, !.numRow = 0]
          /\ fnpc' = "returned"
       \/ /\ fnRes.k = Len(fnArg)
          /\ fnRes' = fnRes
          /\ fnpc' = "returned"
    /\ UNCHANGED fnArg
    /\ UNCHANGED exFn

(***************************************************************************)
(* InputParameters.size and InputParameters.encode.  An argument is nil, a *)
(* value or a *LobInDescr; prm is the size its field type gives it and     *)
(* chunk the size of the first chunk of a LOB.  The encoded body is the    *)
(* sequence of its bytes, each named after what wrote it.                  *)
(***************************************************************************)
MaxInArgs == 4

InputValues ==
    {[kind |-> "nil", prm |-> 1, chunk |-> 0],
     [kind |-> "value", prm |-> 2, chunk |-> 0],
     [kind |-> "LobInDescr", prm |-> 3, chunk |-> 2],
     [kind |-> "LobInDescr", prm |-> 3, chunk |-> 0]}

\* InputFields, nvargs and hasLob; nvargs may hold less than a last row
InputParametersCalls ==
    UNION {UNION {[InputFields : [1..c -> [supportNullValue : BOOLEAN]],
                   nvargs : [1..n -> InputValues],
                   hasLob : BOOLEAN] : c \in 0..n} : n \in 0..MaxInArgs}

\* ParameterField.prmSize
prmSize(f, v) ==
    IF v.kind = "nil" /\ f.supportNullValue THEN 0 ELSE v.prm

\* ParameterField.encodePrm: the bytes written
encodePrm(f, v) ==
    IF v.kind = "nil" /\ f.supportNullValue
    THEN <<"null value type code">>
    ELSE <<"type code">> \o [k \in 1..v.prm |-> "value"]

\* LobInDescr.size and the bytes LobInDescr.writeFirst writes
LobInDescr_size(v) == v.chunk
LobInDescr_writeFirst(v) == [k \in 1..v.chunk |-> "lob data"]

\* the number of rows
numRows(p) == IF Len(p.InputFields) = 0 THEN 0 ELSE Len(p.nvargs) \div Len(p.InputFields)

\* the sum of prmSize over the columns j..numColumns of row i
RECURSIVE size_columns(_, _, _)
size_columns(p, i, j) ==
    IF j > Len(p.InputFields)
    THEN 0
    ELSE prmSize(p.InputFields[j], p.nvargs[(i - 1) * Len(p.InputFields) + j])
            + size_columns(p, i, j + 1)

\* the positions set before the type code bytes of the row are counted
RECURSIVE size_lobs_early(_, _, _, _)
size_lobs_early(p, i, j, st) ==
    IF j > Len(p.InputFields)
    THEN st
    ELSE LET a == (i - 1) * Len(p.InputFields) + j
             v == p.nvargs[a]
         IN IF v.kind = "LobInDescr"
            THEN size_lobs_early(p, i, j + 1,
                    [size |-> st.size + LobInDescr_size(v),
                     pos |-> [st.pos EXCEPT ![a] = st.size - Len(p.InputFields)]])
            ELSE size_lobs_early(p, i, j + 1, st)

\* lob input parameter: set offset position of lob data, for the columns
\* j..numColumns of row i, given size and the positions set so far
RECURSIVE size_lobs(_, _, _, _)
size_lobs(p, i, j, st) ==
    IF j > Len(p.InputFields)
    THEN st
    ELSE LET a == (i - 1) * Len(p.InputFields) + j
             v == p.nvargs[a]
         IN IF v.kind = "LobInDescr"
            THEN size_lobs(p, i, j + 1,
                    [size |-> st.size + LobInDescr_size(v),
                     pos |-> [st.pos EXCEPT ![a] = st.size]])
            ELSE size_lobs(p, i, j + 1, st)

\* the rows i.. of InputParameters.size
RECURSIVE size_rows(_, _, _)
size_rows(p, i, st) ==
    IF i > numRows(p)
    THEN st
    ELSE LET size == st.size + Len(p.InputFields) + size_columns(p, i, 1)
             row == [st EXCEPT !.size = size]
         IN size_rows(p, i + 1, IF p.hasLob THEN size_lobs(p, i, 1, row) ELSE row)

\* no position set
NoPos == "none"

\* InputParameters.size: the size and the positions set with setPos
InputParameters_size(p) ==
    size_rows(p, 1, [size |-> 0, pos |-> [a \in 1..Len(p.nvargs) |-> NoPos]])

\* the bytes of the columns j..numColumns of row i
RECURSIVE encode_columns(_, _, _)
encode_columns(p, i, j) ==
    IF j > Len(p.InputFields)
    THEN <<>>
    ELSE encodePrm(p.InputFields[j], p.nvargs[(i - 1) * Len(p.InputFields) + j])
            \o encode_columns(p, i, j + 1)

\* lob input parameter: write first data chunk, for the columns
\* j..numColumns of row i; at holds where each chunk starts
RECURSIVE encode_lobs(_, _, _, _)
encode_lobs(p, i, j, st) ==
    IF j > Len(p.InputFields)
    THEN st
    ELSE LET a == (i - 1) * Len(p.InputFields) + j
             v == p.nvargs[a]
         IN IF v.kind = "LobInDescr"
            THEN encode_lobs(p, i, j + 1,
                    [body |-> st.body \o LobInDescr_writeFirst(v),
                     at |-> [st.at EXCEPT ![a] = Len(st.body)]])
            ELSE encode_lobs(p, i, j + 1, st)

RECURSIVE encode_rows(_, _, _)
encode_rows(p, i, st) ==
    IF i > numRows(p)
    THEN st
    ELSE LET row == [st EXCEPT !.body = @ \o encode_columns(p, i, 1)]
         IN encode_rows(p, i + 1, IF p.hasLob THEN encode_lobs(p, i, 1, row) ELSE row)

\* InputParameters.encode: the body written and where the first chunks start
InputParameters_encode(p) ==
    encode_rows(p, 1, [body |-> <<>>, at |-> [a \in 1..Len(p.nvargs) |-> NoPos]])

\* the size of the part, computed for its header
inputParametersSize ==
    /\ fnpc = "InputParameters"
    /\ LET sz == InputParameters_size(fnArg)
       IN fnRes' = [size |-> sz.size, pos |-> sz.pos, body |-> <<>>,
                    at |-> [a \in 1..Len(fnArg.nvargs) |-> NoPos]]
    /\ fnpc' = "size"
    /\ UNCHANGED fnArg
    /\ UNCHANGED exFn

\* the encoding of the part
inputParametersEncode ==
    /\ fnpc = "size"
    /\ LET e == InputParameters_encode(fnArg)
       IN fnRes' = [fnRes EXCEPT !.body = e.body, !.at = e.at]
    /\ fnpc' = "encode"
    /\ UNCHANGED fnArg
    /\ UNCHANGED exFn

(***************************************************************************)
(* PartHeader.setNumArg and PartHeader.numArg.  numArg is an int of 64     *)
(* bits, held as hi * 2^16 + lo; the fields of the header are an int16 and *)
(* an int32.                                                               *)
(***************************************************************************)
bigNumArgInd == 0 - 1
MaxInt16 == 32767

\* int16(n) and int32(n): the low bits of n, signed
Int16(n) == IF n.lo > MaxInt16 THEN n.lo - 65536 ELSE n.lo
Int32(n) ==
    LET hi == n.hi % 65536
    IN IF hi > MaxInt16 THEN (hi - 65536) * 65536 + n.lo ELSE hi * 65536 + n.lo

\* the arguments setNumArg is called with and the headers it is called on
NumArgs ==
    {[hi |-> h, lo |-> l] : h \in {0, 1, 2, 32766}, l \in {0, 1, 2, 32766, 32767, 32768, 65534, 65535}}
       \cup {[hi |-> 32767, lo |-> 65534], MaxNumArg, [hi |-> 32768, lo |-> 0],
             [hi |-> 32768, lo |-> 1], [hi |-> 65536, lo |-> 5], [hi |-> 0 - 1, lo |-> 65535]}

PartHeaders ==
    [argumentCount : {0, 5, bigNumArgInd}, bigArgumentCount : {0, 40000}]

\* the 16 bit field used up to the largest uint16
setNumArg_uint16(h, n) ==
    IF ~WLess(Wide(65535), n)
    THEN [h |-> [h EXCEPT !.argumentCount = Int16(n), !.bigArgumentCount = 0], err |-> "nil"]
    ELSE IF ~WLess(MaxNumArg, n)
    THEN [h |-> [h EXCEPT !.argumentCount = bigNumArgInd, !.bigArgumentCount = Int32(n)],
          err |-> "nil"]
    ELSE [h |-> h, err |-> "maximum number of arguments exceeded"]

\* PartHeader.setNumArg: the header and the error
setNumArg(h, n) ==
    IF ~WLess(Wide(MaxInt16), n)
    THEN [h |-> [h EXCEPT !.argumentCount = Int16(n), !.bigArgumentCount = 0], err |-> "nil"]
    ELSE IF ~WLess(MaxNumArg, n)
    THEN [h |-> [h EXCEPT !.argumentCount = bigNumArgInd, !.bigArgumentCount = Int32(n)],
          err |-> "nil"]
    ELSE [h |-> h, err |-> "maximum number of arguments exceeded"]

\* PartHeader.numArg
numArg(h) ==
    IF h.argumentCount = bigNumArgInd THEN h.bigArgumentCount ELSE h.argumentCount

partHeaderSetNumArg ==
    /\ fnpc = "PartHeader"
    /\ LET r == setNumArg(fnArg.h, fnArg.numArg)
       IN fnRes' = [h |-> r.h, err |-> r.err, numArg |-> NoFn]
    /\ fnpc' = "setNumArg"
    /\ UNCHANGED fnArg
    /\ UNCHANGED exFn

partHeaderNumArg ==
    /\ fnpc = "setNumArg"
    /\ fnRes' = [fnRes EXCEPT !.numArg = numArg(fnRes.h)]
    /\ fnpc' = "numArg"
    /\ UNCHANGED fnArg
    /\ UNCHANGED exFn

(***************************************************************************)
(* connAttrs.mu: the getters and setters of connAttrs and newConn, run by  *)
(* three goroutines on one connAttrs.  A goroutine at "read" or "write" is *)
(* at the statement that reads or writes the field attr.                   *)
(***************************************************************************)
AttrThreads == {"getter", "setter", "newConn"}

\* the fields with a getter, with a setter, and those newConn reads
GetterFields ==
    {"_host", "_timeout", "_pingInterval", "_bufferSize", "_bulkSize", "_tcpKeepAlive",
     "_tlsConfig", "_defaultSchema", "_dialer", "_applicationName", "_sessionVariables",
     "_locale", "_fetchSize", "_lobChunkSize", "_dfv", "_legacy", "_cesu8Decoder",
     "_cesu8Encoder"}

SetterFields == GetterFields \ {"_host"}

NewConnFields == GetterFields

\* a getter that takes no read lock
GetterRLocks_all(field) == TRUE

\* the getters that take the read lock, the setters that take the write lock
GetterRLocks(field) == field # "_defaultSchema"

SetterLocks(field) == field # "_defaultSchema"

\* sync.RWMutex
RLockFree(rw) == ~rw.writer
LockFree(rw) == ~rw.writer /\ rw.readers = 0

\* the connAttrs the goroutines share
attrsShare ==
    /\ fnpc = "connAttrs.mu"
    /\ fnRes' = [mu |-> [readers |-> 0, writer |-> FALSE],
                 at |-> [t \in AttrThreads |-> "idle"],
                 field |-> [t \in AttrThreads |-> "none"]]
    /\ fnpc' = "shared"
    /\ UNCHANGED fnArg
    /\ UNCHANGED exFn

\* a getter is called: a.mu.RLock()
getterRLock ==
    /\ fnpc = "shared"
    /\ fnRes.at["getter"] = "idle"
    /\ \E f \in GetterFields :
          /\ GetterRLocks(f) => RLockFree(fnRes.mu)
          /\ fnRes' = [fnRes EXCEPT !.at["getter"] = "read", !.field["getter"] = f,
                          !.mu.readers = IF GetterRLocks(f) THEN @ + 1 ELSE @]
    /\ UNCHANGED <<fnArg, fnpc>>
    /\ UNCHANGED exFn

\* return a._field and the deferred a.mu.RUnlock()
getterReturn ==
    /\ fnpc = "shared"
    /\ fnRes.at["getter"] = "read"
    /\ fnRes' = [fnRes EXCEPT !.at["getter"] = "idle", !.field["getter"] = "none",
                    !.mu.readers = IF GetterRLocks(fnRes.field["getter"]) THEN @ - 1 ELSE @]
    /\ UNCHANGED <<fnArg, fnpc>>
    /\ UNCHANGED exFn

\* a setter is called: a.mu.Lock()
setterLock ==
    /\ fnpc = "shared"
    /\ fnRes.at["setter"] = "idle"
    /\ \E f \in SetterFields :
          /\ SetterLocks(f) => LockFree(fnRes.mu)
          /\ fnRes' = [fnRes EXCEPT !.at["setter"] = "write", !.field["setter"] = f,
                          !.mu.writer = IF SetterLocks(f) THEN TRUE ELSE @]
    /\ UNCHANGED <<fnArg, fnpc>>
    /\ UNCHANGED exFn

\* a._field = value and the deferred a.mu.Unlock()
setterReturn ==
    /\ fnpc = "shared"
    /\ fnRes.at["setter"] = "write"
    /\ fnRes' = [fnRes EXCEPT !.at["setter"] = "idle", !.field["setter"] = "none",
                    !.mu.writer = IF SetterLocks(fnRes.field["setter"]) THEN FALSE ELSE @]
    /\ UNCHANGED <<fnArg, fnpc>>
    /\ UNCHANGED exFn

\* newConn: attrs.mu.RLock() and the first field it reads
newConnRLock ==
    /\ fnpc = "shared"
    /\ fnRes.at["newConn"] = "idle"
    /\ RLockFree(fnRes.mu)
    /\ fnRes' = [fnRes EXCEPT !.at["newConn"] = "read", !.field["newConn"] = "_dialer",
                    !.mu.readers = @ + 1]
    /\ UNCHANGED <<fnArg, fnpc>>
    /\ UNCHANGED exFn

\* newConn: the read of a field and on to the read of another one
newConnRead ==
    /\ fnpc = "shared"
    /\ fnRes.at["newConn"] = "read"
    /\ \E f \in NewConnFields \ {fnRes.field["newConn"]} :
          fnRes' = [fnRes EXCEPT !.field["newConn"] = f]
    /\ UNCHANGED <<fnArg, fnpc>>
    /\ UNCHANGED exFn

\* newConn returns: the deferred attrs.mu.RUnlock()
newConnRUnlock ==
    /\ fnpc = "shared"
    /\ fnRes.at["newConn"] = "read"
    /\ fnRes' = [fnRes EXCEPT !.at["newConn"] = "idle", !.field["newConn"] = "none",
                    !.mu.readers = @ - 1]
    /\ UNCHANGED <<fnArg, fnpc>>
    /\ UNCHANGED exFn

(***************************************************************************)
(* conn._exec for a package with LOB arguments: the Execute, the locator   *)
(* ids of its reply and encodeLobs.  A LOB argument has a number of chunks *)
(* left after the first one, written with the Execute; 0 for a LOB that is *)
(* complete.  The server returns a locator id for every LOB that has data  *)
(* left, in argument order; the id of LOB argument a is a.                 *)
(***************************************************************************)
MaxLobArgs == 3

ExecLobCalls == UNION {[left : [1..n -> 0..MaxChunks]] : n \in 1..MaxLobArgs}

\* the locator ids the server returns for the LOBs with the chunks in left
\* to send, from argument a on
RECURSIVE ServerLocatorIDs(_, _)
ServerLocatorIDs(left, a) ==
    IF a > Len(left)
    THEN <<>>
    ELSE IF left[a] > 0
    THEN <<a>> \o ServerLocatorIDs(left, a + 1)
    ELSE ServerLocatorIDs(left, a + 1)

\* encodeLobs, the range over args: a descriptor for every LOB argument from
\* a on, the j-th of them with ids[j]
RECURSIVE WriteLobDescrs(_, _, _, _)
WriteLobDescrs(left, ids, a, j) ==
    IF a > Len(left)
    THEN [descrs |-> <<>>, err |-> "nil"]
    ELSE IF j > Len(ids)
    THEN [descrs |-> <<>>, err |-> "protocol error: invalid number of lob parameter ids"]
    ELSE LET rest == WriteLobDescrs(left, ids, a + 1, j + 1)
         IN [descrs |-> IF rest.err = "nil"
                        THEN <<[arg |-> a, ID |-> ids[j], left |-> left[a],
                                isLastData |-> FALSE]>> \o rest.descrs
                        ELSE <<>>,
             err |-> rest.err]

\* _exec: the write of the Execute with the first chunk of every LOB
execLobWrite ==
    /\ fnpc = "_exec"
    /\ \E e \in {"nil", "ErrBadConn"} :
          /\ fnRes' = [ids |-> <<>>, descrs |-> <<>>, reqs |-> <<>>, err |-> e]
          /\ fnpc' = IF e = "nil" THEN "execute written" ELSE "returned"
    /\ UNCHANGED fnArg
    /\ UNCHANGED exFn

\* _exec: the read of the reply and, with locator ids, the descriptors of
\* encodeLobs
execLobReply ==
    /\ fnpc = "execute written"
    /\ \/ /\ fnRes' = [fnRes EXCEPT !.err = "ErrBadConn"]
          /\ fnpc' = "returned"
       \/ LET ids == ServerLocatorIDs(fnArg.left, 1)
              b == WriteLobDescrs(fnArg.left, ids, 1, 1)
          IN IF Len(ids) = 0
             THEN /\ fnRes' = fnRes
                  /\ fnpc' = "returned"
             ELSE /\ fnRes' = [fnRes EXCEPT !.ids = ids, !.descrs = b.descrs, !.err = b.err]
                  /\ fnpc' = IF b.err = "nil" THEN "lob write" ELSE "returned"
    /\ UNCHANGED fnArg
    /\ UNCHANGED exFn

\* encodeLobs: one turn of the loop up to the write of the WriteLobRequest
execLobRequest ==
    /\ fnpc = "lob write"
    /\ LET sync == InSync(fnRes.descrs, fnRes.ids)
           fetched == [i \in 1..Len(fnRes.descrs) |-> FetchNext(fnRes.descrs[i])]
       IN IF sync # "nil"
          THEN /\ fnRes' = [fnRes EXCEPT !.err = sync]
               /\ fnpc' = "returned"
          ELSE \E e \in {"nil", "fetch error", "ErrBadConn"} :
                  /\ fnRes' = [fnRes EXCEPT
                        !.descrs = IF e = "fetch error" THEN @ ELSE fetched,
                        !.reqs = IF e = "nil" THEN Append(@, fetched) ELSE @,
                        !.err = e]
                  /\ fnpc' = IF e = "nil" THEN "lob reply" ELSE "returned"
    /\ UNCHANGED fnArg
    /\ UNCHANGED exFn

\* encodeLobs: the read of the reply, with the locator ids of the LOBs that
\* have data left, and the removal of the descriptors that are done
execLobWriteReply ==
    /\ fnpc = "lob reply"
    /\ \/ /\ fnRes' = [fnRes EXCEPT !.err = "ErrBadConn"]
          /\ fnpc' = "returned"
       \/ LET descrs == RemoveDone(fnRes.descrs)
              ids == [i \in 1..Len(descrs) |-> descrs[i].ID]
          IN /\ fnRes' = [fnRes EXCEPT !.ids = IF ids = <<>> THEN @ ELSE ids,
                                       !.descrs = descrs]
             /\ fnpc' = IF descrs # <<>> THEN "lob write" ELSE "returned"
    /\ UNCHANGED fnArg
    /\ UNCHANGED exFn

(***************************************************************************)
(* The commit flag of the requests of a connection: the operations of a    *)
(* connection that send ExecuteDirect or Execute, conn.BeginTx and         *)
(* tx.close, with the requests sent so far.  A request is held with the    *)
(* operation that sent it and the value of c.inTx at the call.             *)
(***************************************************************************)
\* the most requests of a connection
MaxSent == 3

\* the operations that send one ExecuteDirect or Execute request
DirectOps == {"Ping", "conn.QueryContext", "conn.ExecContext"}
PreparedOps == {"stmt.QueryContext", "stmt.exec"}
CallOps == {"callStmt.QueryContext", "callStmt.ExecContext"}
RequestOps == DirectOps \cup PreparedOps \cup CallOps

\* the message type of the request of operation o
MessageType(o) == IF o \in DirectOps THEN "ExecuteDirect" ELSE "Execute"

\* a commit argument that is !c.inTx at every call site
CommitArg_all(o, tx) == ~tx

\* the commit argument of pw.Write at the call site of operation o:
\* !c.inTx, passed through _queryDirect, _execDirect, _query, _execBulk and
\* _exec; the constant false in _queryCall and _execCall
CommitArg(o, tx) == IF o \in CallOps THEN FALSE ELSE ~tx

Request(o, mt, tx, c) == [by |-> o, messageType |-> mt, inTx |-> tx, commit |-> c]

\* newConn: no transaction is open
connOpen ==
    /\ fnpc = "commit"
    /\ fnRes' = [inTx |-> fnArg.inTx, sent |-> <<>>]
    /\ fnpc' = "open"
    /\ UNCHANGED fnArg
    /\ UNCHANGED exFn

\* Ping, conn.QueryContext, conn.ExecContext, stmt.QueryContext, stmt.exec,
\* callStmt.QueryContext, callStmt.ExecContext: the request of the worker
connRequest ==
    /\ fnpc = "open"
    /\ Len(fnRes.sent) < MaxSent
    /\ \E o \in RequestOps :
          fnRes' = [fnRes EXCEPT !.sent =
                       Append(@, Request(o, MessageType(o), fnRes.inTx,
                                         CommitArg(o, fnRes.inTx)))]
    /\ UNCHANGED <<fnArg, fnpc>>
    /\ UNCHANGED exFn

\* conn.BeginTx: set isolation level, set access mode, c.inTx = true; the
\* second statement is not sent when the first one fails
connBeginTx ==
    /\ fnpc = "open"
    /\ ~fnRes.inTx
    /\ Len(fnRes.sent) + 2 <= MaxSent
    /\ LET r == Request("BeginTx", "ExecuteDirect", fnRes.inTx,
                        CommitArg("BeginTx", fnRes.inTx))
       IN \/ fnRes' = [fnRes EXCEPT !.sent = Append(@, r)]
          \/ fnRes' = [fnRes EXCEPT !.sent = Append(Append(@, r), r)]
          \/ fnRes' = [fnRes EXCEPT !.sent = Append(Append(@, r), r), !.inTx = TRUE]
    /\ UNCHANGED <<fnArg, fnpc>>
    /\ UNCHANGED exFn

\* tx.close of the open transaction: c.inTx = false, then _commit or
\* _rollback
connTxClose ==
    /\ fnpc = "open"
    /\ fnRes.inTx
    /\ Len(fnRes.sent) < MaxSent
    /\ \E mt \in {"Commit", "Rollback"} :
          fnRes' = [fnRes EXCEPT !.inTx = FALSE,
                                 !.sent = Append(@, Request("tx.close", mt, TRUE, FALSE))]
    /\ UNCHANGED <<fnArg, fnpc>>
    /\ UNCHANGED exFn

(***************************************************************************)
(* Specifications.                                                         *)
(***************************************************************************)
vars == <<connVars, bulkVars, dsnVars, moreVars>>

\* the added parts, all idle but part s
MoreStart(s) ==
    /\ IF s = "attrs" THEN AttrInit ELSE AttrIdle
    /\ CASE s = "_execDirect" -> FnInit(s, ExecDirectReplies)
         [] s = "subPrmsSize" -> FnInit(s, SubPrmsSizes)
         [] s = "jwt" -> FnInit(s, AuthInputs)
         [] s = "_decodeLobs" -> FnInit(s, LobOutDescrs)
         [] s = "encodeLobs" -> FnInit(s, EncodeLobsCalls)
         [] s = "_readCall" -> FnInit(s, CallReplies)
         [] s = "InputParameters" -> FnInit(s, InputParametersCalls)
         [] s = "PartHeader" -> FnInit(s, [h : PartHeaders, numArg : NumArgs])
         [] s = "connAttrs.mu" -> FnInit(s, {AttrThreads})
         [] s = "_execBulk" -> FnInit(s, ExecBulkCalls)
         [] s = "_authenticate" -> FnInit(s, AuthMethods)
         [] s = "ParameterField" -> FnInit(s, ParameterFields)
         [] s = "OutputParameters" -> FnInit(s, OutputParametersCalls)
         [] s = "commit" -> FnInit(s, {[inTx |-> FALSE]})
         [] s = "_exec" -> FnInit(s, ExecLobCalls)
         [] OTHER -> FnIdle

\* the connection
Init == ConnInit /\ BulkIdle /\ DSNIdle /\ MoreStart("none")

Next ==
    \/ \E p \in Procs :
         \/ Call(p)
         \/ StmtExecContext(p)
         \/ tryLockCheck(p)
         \/ tryLockAcquire(p)
         \/ Body(p)
         \/ SelectEnter(p)
         \/ CtxCancel(p)
         \/ SelCancel(p)
         \/ ReturnCancelled(p)
         \/ SelDone(p)
         \/ IsValid(p)
         \/ ResetSession(p)
         \/ Close(p)
         \/ txClose(p)
         \/ stmtClose(p)
    \/ pinger
    \/ CursorClose
    \/ WkPreFail
    \/ WkWrite
    \/ WkReadBegin
    \/ WkReadEnd

Spec == Init /\ [][Next]_vars

\* Exec calls on one statement
InitBulk == ConnInit /\ BulkInit /\ DSNIdle /\ MoreStart("none")

NextBulk ==
    \/ \E tok \in Toks, arg \in ArgKinds, n \in 0..MaxMany : ExecContext(tok, arg, n)
    \/ execManyPackage

SpecBulk == InitBulk /\ [][NextBulk]_vars

\* one DSN string parsed, written and parsed again
InitDSN == ConnInit /\ BulkIdle /\ DSNInit /\ MoreStart("none")

NextDSN == Parse \/ Stringify \/ Reparse

SpecDSN == InitDSN /\ [][NextDSN]_vars

\* setter calls on the attributes of one connector
InitAttrs == ConnInit /\ BulkIdle /\ DSNIdle /\ MoreStart("attrs")

NextAttrs == setTimeout \/ setBulkSize \/ setFetchSize \/ setLobChunkSize \/ setDfv

SpecAttrs == InitAttrs /\ [][NextAttrs]_vars

\* one call of conn._execDirect
InitExecDirect == ConnInit /\ BulkIdle /\ DSNIdle /\ MoreStart("_execDirect")

NextExecDirect == execDirect

SpecExecDirect == InitExecDirect /\ [][NextExecDirect]_vars

\* one size encoded and decoded
InitSubPrmsSize == ConnInit /\ BulkIdle /\ DSNIdle /\ MoreStart("subPrmsSize")

NextSubPrmsSize == subPrmsSizeEncode \/ subPrmsSizeDecode

SpecSubPrmsSize == InitSubPrmsSize /\ [][NextSubPrmsSize]_vars

\* one authentication with a JWT
InitJWT == ConnInit /\ BulkIdle /\ DSNIdle /\ MoreStart("jwt")

NextJWT == authInitRequest \/ authInitReply \/ authFinalRequest \/ authFinalReply

SpecJWT == InitJWT /\ [][NextJWT]_vars

\* the download of one LOB
InitDecodeLobs == ConnInit /\ BulkIdle /\ DSNIdle /\ MoreStart("_decodeLobs")

NextDecodeLobs == decodeLobsFirst \/ decodeLobsRequest \/ decodeLobsReply

SpecDecodeLobs == InitDecodeLobs /\ [][NextDecodeLobs]_vars

\* the upload of LOBs
InitEncodeLobs == ConnInit /\ BulkIdle /\ DSNIdle /\ MoreStart("encodeLobs")

NextEncodeLobs == encodeLobsBuild \/ encodeLobsWrite \/ encodeLobsReply

SpecEncodeLobs == InitEncodeLobs /\ [][NextEncodeLobs]_vars

\* the reply to a procedure call
InitReadCall == ConnInit /\ BulkIdle /\ DSNIdle /\ MoreStart("_readCall")

NextReadCall == readCallStart \/ readCallPart \/ readCallReturn

SpecReadCall == InitReadCall /\ [][NextReadCall]_vars

\* the input parameters part
InitInputParameters == ConnInit /\ BulkIdle /\ DSNIdle /\ MoreStart("InputParameters")

NextInputParameters == inputParametersSize \/ inputParametersEncode

SpecInputParameters == InitInputParameters /\ [][NextInputParameters]_vars

\* the argument count of a part header
InitPartHeader == ConnInit /\ BulkIdle /\ DSNIdle /\ MoreStart("PartHeader")

NextPartHeader == partHeaderSetNumArg \/ partHeaderNumArg

SpecPartHeader == InitPartHeader /\ [][NextPartHeader]_vars

\* _exec for a package with LOB arguments
InitExecLobs == ConnInit /\ BulkIdle /\ DSNIdle /\ MoreStart("_exec")

NextExecLobs == execLobWrite \/ execLobReply \/ execLobRequest \/ execLobWriteReply

SpecExecLobs == InitExecLobs /\ [][NextExecLobs]_vars

\* the commit flag of the requests
InitCommit == ConnInit /\ BulkIdle /\ DSNIdle /\ MoreStart("commit")

NextCommit == connOpen \/ connRequest \/ connBeginTx \/ connTxClose

SpecCommit == InitCommit /\ [][NextCommit]_vars

\* the lock of connAttrs
InitAttrsLock == ConnInit /\ BulkIdle /\ DSNIdle /\ MoreStart("connAttrs.mu")

NextAttrsLock ==
    \/ attrsShare
    \/ getterRLock \/ getterReturn
    \/ setterLock \/ setterReturn
    \/ newConnRLock \/ newConnRead \/ newConnRUnlock

SpecAttrsLock == InitAttrsLock /\ [][NextAttrsLock]_vars

\* one _execBulk of several rows with a LOB parameter
InitExecBulk == ConnInit /\ BulkIdle /\ DSNIdle /\ MoreStart("_execBulk")

NextExecBulk == execBulkSplit \/ execBulkFetch \/ execBulkExec

SpecExecBulk == InitExecBulk /\ [][NextExecBulk]_vars

\* one authentication
InitAuthenticate == ConnInit /\ BulkIdle /\ DSNIdle /\ MoreStart("_authenticate")

NextAuthenticate ==
    \/ authenticateInitRequest
    \/ authenticateInitReply
    \/ authenticateFinalRequest
    \/ authenticateFinalReply

SpecAuthenticate == InitAuthenticate /\ [][NextAuthenticate]_vars

\* one call on a parameter field
InitParameterField == ConnInit /\ BulkIdle /\ DSNIdle /\ MoreStart("ParameterField")

NextParameterField == fieldNullable \/ fieldIn \/ fieldOut

SpecParameterField == InitParameterField /\ [][NextParameterField]_vars

\* one decode of output parameters
InitOutputParameters == ConnInit /\ BulkIdle /\ DSNIdle /\ MoreStart("OutputParameters")

NextOutputParameters == outputParametersDecode

SpecOutputParameters == InitOutputParameters /\ [][NextOutputParameters]_vars

(***************************************************************************)
(* Properties of the connection.                                           *)
(***************************************************************************)
\* the call of goroutine p returns in this step
Ret(p) == pc[p] # "idle" /\ pc'[p] = "idle"

\* a cursor holding the connection lock is open
CursorHoldsLock == cursor.st = "open" /\ cursor.onClose

\* C1: while a cursor that holds the connection lock (reason lrNestedQuery)
\* is open, every call that reaches the check of tryLock returns
\* ErrNestedQuery without a message written for it and leaves the lock with
\* the cursor; the close of the cursor resets the reason and frees the lock,
\* and a check that finds the reason reset goes on to take the lock.
C1_NestedQueryGuard ==
    [][ /\ CursorHoldsLock => (lockReason = lrNestedQuery /\ connMu = "rows")
        /\ \A p \in Procs :
             (pc[p] = "tryLock" /\ pc'[p] # "tryLock") =>
                 IF CursorHoldsLock
                 THEN /\ Ret(p)
                      /\ last'.name = op[p].name
                      /\ last'.err = "ErrNestedQuery"
                      /\ ~last'.wrote
                      /\ UNCHANGED <<lockVars, cursor>>
                 ELSE lockReason # lrNestedQuery => pc'[p] = "connWait"
        /\ (CursorHoldsLock /\ cursor'.st # "open") =>
               (lockReason' = 0 /\ connMu' = "free")
      ]_vars

\* a call made while the cursor holds the lock has been refused
C1_Witness ==
    /\ CursorHoldsLock
    /\ last.name = "ExecContext"
    /\ last.err = "ErrNestedQuery"
    /\ ~last.wrote

\* C2: a worker-based operation whose context was cancelled before its
\* worker completed the exchange returns the context's error, has released
\* the lock, and leaves the connection bad (IsValid false from then on).
C2_CancelOutcome ==
    [][ \A p \in Procs :
          (Ret(p) /\ op[p].name \in WorkerOps /\ ctxFirst[p]) =>
              /\ last'.err = "ctxErr"
              /\ last'.val = "nil"
              /\ connMu' # p
              /\ dbLastError' # "nil"
      ]_vars

\* C3: PrepareContext whose context is cancelled before the prepare reply
\* has arrived is not held up by the exchange (it does not wait for the
\* reply), returns the context's error and no statement, and marks the
\* connection cancelled.
C3_PrepareCancel ==
    [][ \A p \in Procs :
          /\ (op[p].name = "PrepareContext" /\ ctxDone[p] /\ ctxFirst[p]
                /\ wk.owner = p /\ wk.st # "done") => pc[p] # "sync"
          /\ (Ret(p) /\ op[p].name = "PrepareContext" /\ ctxFirst[p]) =>
                /\ last'.err = "ctxErr"
                /\ last'.val = "nil"
                /\ cancelled'
      ]_vars

\* the step of a call that holds the connection lock and evaluates isBad
LockedStep(p) == pc[p] \in {"body", "lock"} /\ pc'[p] # pc[p]

\* the latch: with dbConn.lastError set, the operation of p that holds the
\* lock returns the bad-connection error without a message, IsValid returns
\* false; exempt are conn.Close and the operations in exempt
LatchRule(exempt) ==
    dbLastError # "nil" =>
        /\ dbLastError' # "nil"
        /\ \A p \in Procs :
             LockedStep(p) =>
                 CASE op[p].name = "Close"   -> TRUE
                   [] op[p].name = "IsValid" -> Ret(p) /\ last'.val = "false"
                   [] op[p].name \in exempt  -> TRUE
                   [] OTHER -> /\ Ret(p)
                               /\ last'.err = "ErrBadConn"
                               /\ ~last'.wrote

\* C4 (as stated): once dbConn.lastError is set, every operation that obtains
\* the connection lock, other than conn.Close, returns the bad-connection
\* error without writing a message, IsValid returns false, and the latch is
\* never cleared.
C4_LatchAsStated == [][LatchRule({})]_vars

\* Commit or Rollback of a transaction that is already closed
ClosedTxOps == IF txObj = "closed" THEN {"TxClose"} ELSE {}

\* C4 (amended): as C4, except that Commit/Rollback of a transaction that is
\* already closed returns nil.
C4_Latch == [][LatchRule(ClosedTxOps)]_vars

\* a statement exec on a connection cancelled by an earlier call is refused
C4_Witness ==
    /\ dbLastError = "errCancelled"
    /\ last.name = "StmtExec"
    /\ ~last.ctxFirst
    /\ last.err = "ErrBadConn"
    /\ ~last.wrote

\* C5: when an operation returns an HDB error and no transport error is
\* recorded, the connection is not bad; on a connection that is not bad
\* IsValid returns true and an operation holding the lock returns the
\* bad-connection error only for a transport failure of its own exchange.
C5_HdbErrorNonFatal ==
    [][ /\ \A p \in Procs :
             (Ret(p) /\ last'.err = "hdb" /\ dbLastError' = "nil") => ~isBad'
        /\ (last.err = "hdb" /\ dbLastError = "nil") =>
             /\ ~isBad
             /\ \A p \in Procs :
                  LockedStep(p) =>
                      /\ op[p].name = "IsValid" => last'.val = "true"
                      /\ (Ret(p) /\ last'.err = "ErrBadConn") => dbLastError' # "nil"
      ]_vars

\* an exec returned an HDB error and the connection is usable
C5_Witness ==
    /\ last.name = "ExecContext"
    /\ last.err = "hdb"
    /\ cLastError = "hdb"
    /\ ~isBad

\* C6: a query that returns a cursor keeps the lock held, with the cursor,
\* until the cursor is closed; every other return of an operation that took
\* the lock leaves the lock released by that operation.
C6_LockRelease ==
    [][ /\ \A p \in Procs :
             Ret(p) =>
                 IF op[p].name \in QueryOps /\ last'.val = "rows"
                 THEN connMu' = "rows" /\ lockReason' = lrNestedQuery /\ cursor'.onClose
                 ELSE connMu' # p /\ (connMu = p => connMu' = "free")
        /\ (connMu = "rows" /\ connMu' # "rows") => (cursor.st = "open" /\ cursor'.st = "none")
      ]_vars

\* the errors of C12: the caller broke the contract of the operation
ContractErrors == {"ErrNestedTransaction", "ErrUnsupportedIsolationLevel", "argCount"}

\* C12: BeginTx with a transaction open returns ErrNestedTransaction, BeginTx
\* with an unsupported isolation level returns ErrUnsupportedIsolationLevel,
\* a prepared Exec or Query with the wrong number of arguments returns an
\* error; with each of them no message is written, inTx is unchanged, the
\* lock is released and the connection is not marked bad.
C12_ContractErrors ==
    [][ \A p \in Procs :
          /\ (pc[p] = "body" /\ pc'[p] # "body" /\ ~isBad /\ op[p].name = "BeginTx") =>
                 /\ inTx => (Ret(p) /\ last'.err = "ErrNestedTransaction")
                 /\ (~inTx /\ op[p].variant = "badLevel") =>
                        (Ret(p) /\ last'.err = "ErrUnsupportedIsolationLevel")
          /\ (pc[p] \in {"entry", "body"} /\ pc'[p] # pc[p] /\ ~isBad
                /\ op[p].name \in {"StmtQuery", "StmtExec", "CallQuery", "CallExec"}
                /\ op[p].variant = "argCount") =>
                 (Ret(p) /\ last'.err = "argCount")
          /\ (Ret(p) /\ last'.err \in ContractErrors) =>
                 /\ ~last'.wrote
                 /\ last'.val = "nil"
                 /\ inTx' = inTx
                 /\ connMu' # p
                 /\ connMu = p => (connMu' = "free" /\ lockReason' = 0)
                 /\ dbVars' = dbVars
                 /\ cLastError' = cLastError
                 /\ isBad' = isBad
                 /\ ~lockFault'
      ]_vars

\* BeginTx was refused inside an open transaction on a usable connection
C12_Witness ==
    /\ last.name = "BeginTx"
    /\ last.err = "ErrNestedTransaction"
    /\ inTx
    /\ txObj = "open"
    /\ ~isBad
    /\ connMu = "free"

\* the rule of C14; exempt: the operations that need not return the
\* bad-connection error after Close
CloseRule(exempt) ==
    /\ \A p \in Procs :
         (LockedStep(p) /\ op[p].name = "Close") =>
             /\ Ret(p)
             /\ last'.wrote => ~isBad
             /\ UNCHANGED wk
             /\ dbClosed'
             /\ isBad'
    /\ pc'["pinger"] = "stopped" => dbClosed
    /\ dbClosed =>
         /\ dbClosed'
         /\ isBad /\ isBad'
         /\ LatchRule(exempt)
         /\ \A p \in Procs : ~wrote[p] /\ ~wrote'[p]
         /\ ~last'.wrote \/ last' = last
         /\ pc["pinger"] = "stopped" => pc'["pinger"] = "stopped"

ExecStep == bpc = "idle" /\ vars' # vars

\* the sum of the rows the server reported affected over the entries of log
RECURSIVE SumAff(_)
SumAff(log) == IF log = <<>> THEN 0 ELSE log[1].aff + SumAff(Tail(log))

\* the rule of C7 for one Exec call; carried is TRUE where a flush request
\* left behind by an earlier call is taken as given with this call
BufferingRule(carried) ==
    (ExecStep /\ bin'.bulk /\ bin'.arg \in {"row", "none"}) =>
        LET rows == IF bin'.arg = "row" THEN Append(bin'.buffered, rowSeq')
                    ELSE bin'.buffered
            flushNow == \/ bin'.arg = "none"
                        \/ bin'.tok = "Flush"
                        \/ Len(rows) >= bulkSize
                        \/ (carried /\ bin'.flush)
        IN IF flushNow /\ rows # <<>>
           THEN /\ Len(execLog') = 1
                /\ execLog'[1].rows = rows
                /\ nvargs' = <<>>
           ELSE /\ execLog' = <<>>
                /\ nvargs' = rows
                /\ bret' = [val |-> "noRows", n |-> 0, err |-> FALSE]

\* C7: in bulk mode an Exec call with one row appends the row to the buffer
\* and returns 'no rows' without an exec, unless the buffer has reached
\* bulkSize or the flush token came with that call; an Exec call without
\* arguments flushes; a flush hands all buffered rows in the order they were
\* added to a single exec, and nothing is sent for an empty buffer.
C7_BulkBuffering == [][BufferingRule(FALSE)]_vars

\* an Exec call with a composite argument that reached execMany has returned
ExecManyReturned ==
    /\ bpc = "idle"
    /\ bin.arg = "many"
    /\ ~bin.bulk
    /\ bin.buffered = <<>>
    /\ bret.val = "rowsAffected"

\* the packages sent are the first packages of the argument, in order
PackagesInOrder ==
    /\ Len(execLog) <= numPack(bin.n)
    /\ \A k \in 1..Len(execLog) :
         LET pkg == execLog[k].rows
         IN /\ Len(pkg) = min(k * bulkSize, bin.n) - (k - 1) * bulkSize
            /\ Len(pkg) <= bulkSize
            /\ \A i \in 1..Len(pkg) : pkg[i] = (k - 1) * bulkSize + i - 1

\* C8: for a composite argument of n rows and bulk size b, execMany issues
\* exactly ceil(n/b) exec calls when all succeed, package p carries exactly
\* the rows p*b .. min((p+1)*b, n) - 1 in caller order, and the count
\* returned is the sum of the affected-row counts of the packages.
C8_ExecManyPackaging ==
    (ExecManyReturned /\ ~bret.err) =>
        /\ Len(execLog) = numPack(bin.n)
        /\ numPack(bin.n) * bulkSize >= bin.n
        /\ (numPack(bin.n) - 1) * bulkSize < bin.n \/ bin.n = 0
        /\ PackagesInOrder
        /\ \A k \in 1..Len(execLog) : execLog[k].out = "ok"
        /\ bret.n = SumAff(execLog)

\* C9: when the exec or the fill of package k fails, execMany stops, sends
\* no later package and returns the error with the sum of the affected-row
\* counts of the packages 0..k-1.
C9_ExecManyPartialSum ==
    /\ (bin.arg = "many" /\ ~bin.bulk) => bpc # "crashed"
    /\ (ExecManyReturned /\ bret.err) =>
          LET done == SelectSeq(execLog, LAMBDA e : e.out = "ok")
          IN /\ PackagesInOrder
             /\ \A k \in 1..Len(execLog) : execLog[k].out # "ok" => k = Len(execLog)
             /\ Len(done) < numPack(bin.n)
             /\ bret.n = SumAff(done)

(***************************************************************************)
(* Properties of parseDSN and DSN.String.                                  *)
(***************************************************************************)
\* C10: for every DSN d that parseDSN accepts, parseDSN(d.String())
\* succeeds and yields the host, username, password, defaultSchema,
\* timeout, pingInterval and TLS parameters of d.
C10_DSNRoundTrip ==
    dpc = "reparsed" =>
        /\ dsn2.err = "nil"
        /\ dsn2.dsn.host = dsn.dsn.host
        /\ dsn2.dsn.username = dsn.dsn.username
        /\ dsn2.dsn.password = dsn.dsn.password
        /\ dsn2.dsn.defaultSchema = dsn.dsn.defaultSchema
        /\ dsn2.dsn.timeout = dsn.dsn.timeout
        /\ dsn2.dsn.pingInterval = dsn.dsn.pingInterval
        /\ dsn2.dsn.tls.set = dsn.dsn.tls.set
        /\ dsn2.dsn.tls.ServerName = dsn.dsn.tls.ServerName
        /\ dsn2.dsn.tls.InsecureSkipVerify = dsn.dsn.tls.InsecureSkipVerify
        /\ dsn2.dsn.tls.RootCAFiles = dsn.dsn.tls.RootCAFiles


(***************************************************************************)
(* Properties of connAttrs.                                                *)
(***************************************************************************)
\* a <= b for ints held as hi * 2^16 + lo
WLeq(a, b) == ~WLess(b, a)

\* v is the value of lo..hi nearest to x
Nearest(v, x, lo, hi) ==
    /\ lo <= v /\ v <= hi
    /\ x < lo => v = lo
    /\ x > hi => v = hi
    /\ (lo <= x /\ x <= hi) => v = x

\* C11: after any sequence of setter calls 1 <= bulkSize <= 2^31-1,
\* 128 <= lobChunkSize <= 16384, fetchSize >= 1, timeout >= 0 and dfv is a
\* supported level; the value stored by a setter is its argument if that is
\* in range and the nearest bound otherwise (the default 8 for a dfv that
\* is not supported).
C11_AttrBounds ==
    /\ WLeq(Wide(1), _bulkSize) /\ WLeq(_bulkSize, [hi |-> 32767, lo |-> 65535])
    /\ 128 <= _lobChunkSize /\ _lobChunkSize <= 16384
    /\ _fetchSize >= 1
    /\ _timeout >= 0
    /\ IsSupportedDfv(_dfv)
    /\ attrSet.attr = "bulkSize" =>
          /\ WLess(attrSet.arg, Wide(1)) => _bulkSize = Wide(1)
          /\ WLess([hi |-> 32767, lo |-> 65535], attrSet.arg) =>
                 _bulkSize = [hi |-> 32767, lo |-> 65535]
          /\ (WLeq(Wide(1), attrSet.arg) /\ WLeq(attrSet.arg, [hi |-> 32767, lo |-> 65535])) =>
                 _bulkSize = attrSet.arg
    /\ attrSet.attr = "lobChunkSize" => Nearest(_lobChunkSize, attrSet.arg, 128, 16384)
    /\ attrSet.attr = "fetchSize" =>
          _fetchSize = (IF attrSet.arg < 1 THEN 1 ELSE attrSet.arg)
    /\ attrSet.attr = "timeout" =>
          _timeout = (IF attrSet.arg < 0 THEN 0 ELSE attrSet.arg)
    /\ attrSet.attr = "dfv" =>
          _dfv = (IF IsSupportedDfv(attrSet.arg) THEN attrSet.arg ELSE 8)

\* a bulk size above the upper bound was set and every other attribute was
\* set out of range before
C11_Witness ==
    /\ attrSet.attr = "bulkSize"
    /\ attrSet.arg = [hi |-> 32768, lo |-> 0]
    /\ _bulkSize = MaxNumArg
    /\ _lobChunkSize = maxLobChunkSize
    /\ _fetchSize = minFetchSize
    /\ _timeout = minTimeout
    /\ _dfv = 4


(***************************************************************************)
(* Properties of conn._execDirect.                                         *)
(***************************************************************************)
\* the RowsAffected parts of the reply
RowsAffectedParts(reply) == SelectSeq(reply.parts, LAMBDA part : part.kind = PkRowsAffected)

\* C13: _execDirect returns 'no rows' exactly when the function code of the
\* reply is DDL; otherwise it returns the total of the RowsAffected part of
\* the reply (of the last one, if there are several), 0 if the reply has
\* none.
C13_ExecDirectResult ==
    (fnpc = "done" /\ fnArg \in ExecDirectReplies) =>
        LET ra == RowsAffectedParts(fnArg)
        IN IF fnArg.out # "ok"
           THEN fnRes.err /\ fnRes.val = "nil"
           ELSE /\ ~fnRes.err
                /\ fnRes.val = "noRows" <=> fnArg.fc = "FcDDL"
                /\ fnArg.fc # "FcDDL" =>
                      /\ fnRes.val = "rowsAffected"
                      /\ fnRes.n = (IF ra = <<>> THEN 0 ELSE ra[Len(ra)].total)

\* a DDL reply that carries a RowsAffected part gave 'no rows'
C13_Witness ==
    /\ fnpc = "done"
    /\ fnArg \in ExecDirectReplies
    /\ fnArg.out = "ok"
    /\ fnArg.fc = "FcDDL"
    /\ Len(RowsAffectedParts(fnArg)) = 1
    /\ RowsAffectedParts(fnArg)[1].total = 2
    /\ fnRes.val = "noRows"


(***************************************************************************)
(* Properties of dbConn.                                                   *)
(***************************************************************************)
\* a step of the connection whose flag is set: the flag stays set; a Write
\* or Read that begins ends the exchange with (nil, ErrBadConn); no message
\* is written, no conn.Read is begun, and dbConn.lastError takes no error of
\* the network connection other than that of a conn.Read begun before
NoLaterIO ==
    cancelled =>
        /\ cancelled'
        /\ (wk.st \in {"write", "read"} /\ wk'.st # wk.st) =>
              IF wk.orphan
              THEN wk' = NoWk
              ELSE /\ wk'.st = "done"
                   /\ res'[wk.owner] = [val |-> "nil", err |-> "ErrBadConn"]
        /\ \A p \in Procs : wrote'[p] => wrote[p]
        /\ (last' # last /\ last'.wrote) => (last'.p \in Procs /\ wrote[last'.p])
        /\ dbLastError' # dbLastError =>
              (wk.st = "reading" \/ dbLastError' \in {"errCancelled", "errClosed"})

\* C20: once dbConn.cancel() has set the cancelled flag, every later
\* dbConn.Read and dbConn.Write returns the bad-connection error at once,
\* without a deadline set or any I/O on the network connection, and the flag
\* is never reset.
C20_CancelledReadWrite == [][NoLaterIO]_vars

\* the worker's Write came after the cancel of its caller: nothing was
\* written and ErrBadConn is its result
C20_Witness ==
    \E p \in Procs :
        /\ cancelled
        /\ pc[p] = "returning"
        /\ wk.owner = p /\ wk.st = "done"
        /\ res[p] = [val |-> "nil", err |-> "ErrBadConn"]
        /\ ~wrote[p]

(***************************************************************************)
(* Properties of subPrmsSize.                                              *)
(***************************************************************************)
\* C15: for every n in 0..65535 the bytes subPrmsSize(n).encode writes are
\* the single byte n if and only if n <= 245 and otherwise the byte 255
\* followed by n as big-endian uint16, fieldSize() is the number of bytes
\* written, and decoding the bytes yields n.
C15_SubPrmsSizeRoundTrip ==
    (fnpc \in {"encoded", "decoded"} /\ fnArg \in 0..65535) =>
        /\ ~fnRes.err
        /\ fnRes.bytes = <<fnArg>> <=> fnArg <= 245
        /\ fnArg > 245 =>
              /\ Len(fnRes.bytes) = 3
              /\ fnRes.bytes[1] = 255
              /\ fnRes.bytes[2] \in 0..255 /\ fnRes.bytes[3] \in 0..255
              /\ fnRes.bytes[2] * 256 + fnRes.bytes[3] = fnArg
        /\ fnRes.fieldSize = Len(fnRes.bytes)
        /\ fnpc = "decoded" => (~fnRes.panic /\ fnRes.size = fnArg)

\* the largest size came back from its three bytes
C15_Witness ==
    /\ fnpc = "decoded"
    /\ fnArg = 65535
    /\ fnRes.bytes = <<255, 255, 255>>
    /\ fnRes.size = 65535


(***************************************************************************)
(* Properties of the JWT authentication.                                   *)
(***************************************************************************)
\* the final reply announces two parameters and its method type is JWT
TwoPrmsOfJWT(reply) ==
    /\ reply.numPrm = 2
    /\ reply.fields # <<>>
    /\ reply.fields[1] = "JWT"

\* C16: the init request is [logon name as CESU-8 string, "JWT", token]; the
\* final request is [the logon name decoded from the init reply, "JWT", empty
\* parameter]; the final reply is accepted only if it has 2 parameters and
\* the method type JWT, otherwise an error is returned and the cookie stays
\* as it was; after an accepted final reply Cookie() returns the logon name
\* and the cookie bytes received.
C16_JWTFlow ==
    /\ fnpc \in {"initRequest", "initReply", "authFailed", "finalRequest", "finalReply"} =>
          fnRes.initRequest = <<[kind |-> "string", val |-> fnArg.logonname],
                                [kind |-> "bytes", val |-> "JWT"],
                                [kind |-> "bytes", val |-> fnArg.token]>>
    /\ fnpc \in {"finalRequest", "finalReply"} =>
          /\ Len(fnRes.initReply.fields) >= 2
          /\ fnRes.finalRequest = <<[kind |-> "string", val |-> fnRes.initReply.fields[2]],
                                    [kind |-> "bytes", val |-> "JWT"],
                                    [kind |-> "bytes", val |-> ""]>>
    /\ fnpc = "finalReply" =>
          /\ fnRes.err = "nil" => TwoPrmsOfJWT(fnRes.finalReply)
          /\ ~TwoPrmsOfJWT(fnRes.finalReply) =>
                (fnRes.err # "nil" /\ fnRes.jwt._cookie = NilCookie)
          /\ fnRes.err = "nil" =>
                /\ Len(fnRes.finalReply.fields) >= 2
                /\ Cookie(fnRes.jwt) = <<fnRes.initReply.fields[2], fnRes.finalReply.fields[2]>>

\* the flow of the repository's test: USER123 and its cookie
C16_Witness ==
    /\ fnpc = "finalReply"
    /\ fnRes.err = "nil"
    /\ fnArg = [logonname |-> "", token |-> "dummy token"]
    /\ fnRes.initReply = [numPrm |-> 2, fields |-> <<"JWT", "USER123">>]
    /\ fnRes.finalReply = [numPrm |-> 2, fields |-> <<"JWT", "5be8f43e">>]
    /\ Cookie(fnRes.jwt) = <<"USER123", "5be8f43e">>


(***************************************************************************)
(* Properties of the parameters.                                           *)
(***************************************************************************)
\* C18: for every combination of the option bits mandatory (1), optional (2)
\* and default (4), Nullable() returns true if and only if the options
\* include the optional bit.
C18_NullableIffOptional ==
    (fnpc = "done" /\ fnRes.fn = "Nullable") =>
        (fnRes.val <=> (fnArg.parameterOptions \div 2) % 2 = 1)

\* the part of a call of decode: the cells that fail, in the order of decoding
RECURSIVE FailedCells(_, _)
FailedCells(c, k) ==
    IF k >= c.numArg * Len(c.OutputFields)
    THEN <<>>
    ELSE (IF k \in c.fails THEN <<k>> ELSE <<>>) \o FailedCells(c, k + 1)

\* C19: OutputParameters.decode produces exactly numArg x len(OutputFields)
\* values; each field whose decodeRes fails adds one DecodeError with its row
\* index and field name while the fields after it are still decoded; decode
\* returns the decoder's latched stream error and never a field's error.
C19_FieldErrorsNonFatal ==
    (fnpc = "done" /\ "fails" \in DOMAIN fnArg) =>
        LET cols == Len(fnArg.OutputFields)
            before == Len(fnArg.DecodeErrors)
            failed == FailedCells(fnArg, 0)
        IN /\ Len(fnRes.FieldValues) = fnArg.numArg * cols
           /\ Len(fnRes.DecodeErrors) = before + Len(failed)
           /\ SubSeq(fnRes.DecodeErrors, 1, before) = fnArg.DecodeErrors
           /\ \A n \in 1..Len(failed) :
                 fnRes.DecodeErrors[before + n] =
                     [row |-> failed[n] \div cols,
                      fieldName |-> fnArg.OutputFields[(failed[n] % cols) + 1]]
           /\ \A k \in 0..(fnArg.numArg * cols - 1) :
                 k \notin fnArg.fails => fnRes.FieldValues[k + 1] = "value"
           /\ fnRes.err = fnArg.decError

\* the first field of two rows fails, the second fields are decoded, nil is
\* returned
C19_Witness ==
    /\ fnpc = "done"
    /\ "fails" \in DOMAIN fnArg
    /\ fnArg.OutputFields = <<"A", "B">>
    /\ fnArg.numArg = 2
    /\ fnArg.fails = {0, 2}
    /\ fnArg.decError = "nil"
    /\ fnArg.DecodeErrors = <<>>
    /\ fnRes.DecodeErrors = <<[row |-> 0, fieldName |-> "A"], [row |-> 1, fieldName |-> "A"]>>
    /\ fnRes.FieldValues = <<"zero", "value", "zero", "value">>
    /\ fnRes.err = "nil"


(***************************************************************************)
(* Properties of conn._authenticate.                                       *)
(***************************************************************************)
AuthOrder == <<"write Authenticate", "read init reply", "write Connect", "read final reply">>

ConnectSent == \E i \in 1..Len(fnRes.log) : fnRes.log[i].msg = "write Connect"

\* C21: the messages of _authenticate are, in this order, write Authenticate,
\* read init reply, write Connect, read final reply; an init reply whose
\* part has not exactly 2 parameters or names a method that is not registered
\* fails with 'invalid number of parameters' / 'invalid method type' and no
\* Connect message is sent; the final request is prepared and the final
\* reply decoded by the method the init reply selected.
C21_AuthOrder ==
    fnpc \in {"initRequest written", "initReply read", "finalRequest written", "returned"} =>
        /\ Len(fnRes.log) <= 4
        /\ \A i \in 1..Len(fnRes.log) : fnRes.log[i].msg = AuthOrder[i]
        /\ ConnectSent =>
              /\ fnRes.initReply.kind = "auth"
              /\ fnRes.initReply.numPrm = 2
              /\ fnRes.initReply.mt \in fnArg.methods
        /\ (fnRes.initReply.kind = "auth" /\ fnRes.initReply.numPrm # 2) =>
              (fnpc = "returned" /\ fnRes.err = "invalid number of parameters")
        /\ (fnRes.initReply.kind = "auth" /\ fnRes.initReply.numPrm = 2
              /\ fnRes.initReply.mt \notin fnArg.methods) =>
              (fnpc = "returned" /\ fnRes.err = "invalid method type")
        /\ \A i \in 3..Len(fnRes.log) : fnRes.log[i].by = fnRes.initReply.mt

\* the server picks one of three registered methods and both exchanges
\* are done
C21_Witness ==
    /\ fnpc = "returned"
    /\ fnArg.methods = {"JWT", "SCRAMSHA256", "SCRAMPBKDF2SHA256"}
    /\ fnRes.err = "nil"
    /\ fnRes.log = <<[msg |-> "write Authenticate", by |-> "none"],
                     [msg |-> "read init reply", by |-> "none"],
                     [msg |-> "write Connect", by |-> "SCRAMPBKDF2SHA256"],
                     [msg |-> "read final reply", by |-> "SCRAMPBKDF2SHA256"]>>


(***************************************************************************)
(* Properties of the split of _execBulk.                                   *)
(***************************************************************************)
\* the packages sent and the rows fetched so far
ExecEvents == SelectSeq(fnRes.ev, LAMBDA e : e.op = "exec")
FetchedRows == {fnRes.ev[k].from : k \in {j \in 1..Len(fnRes.ev) : fnRes.ev[j].op = "fetch"}}

\* C22: the packages _execBulk sends are contiguous row ranges, each
\* starting where the one before ended and the first at the first row; in a
\* package only the last row has a LOB whose first chunk is not all of its
\* data; the first chunk of every row of a package is fetched before the
\* package is sent; when _execBulk returns without error every row has been
\* sent, once and in order.
C22_LastRowPiecewise ==
    fnpc \in {"fetch", "exec", "returned"} =>
        LET pk == ExecEvents
        IN /\ \A n \in 1..Len(pk) :
                 /\ pk[n].from = (IF n = 1 THEN 1 ELSE pk[n - 1].to + 1)
                 /\ pk[n].from <= pk[n].to
                 /\ \A r \in pk[n].from..(pk[n].to - 1) : r \notin fnArg.hasNext
           /\ \A k \in 1..Len(fnRes.ev) :
                 fnRes.ev[k].op = "exec" =>
                    \A r \in fnRes.ev[k].from..fnRes.ev[k].to :
                       \E j \in 1..(k - 1) :
                          fnRes.ev[j].op = "fetch" /\ fnRes.ev[j].from = r
           /\ (fnpc = "returned" /\ fnRes.err = "nil") =>
                 (Len(pk) >= 1 /\ pk[Len(pk)].to = fnArg.numRows)

\* four rows, the second with an incomplete LOB: two packages
C22_Witness ==
    /\ fnpc = "returned"
    /\ fnRes.err = "nil"
    /\ fnArg.numRows = 4
    /\ fnArg.hasNext = {2}
    /\ Len(ExecEvents) = 2
    /\ ExecEvents[1].from = 1 /\ ExecEvents[1].to = 2
    /\ ExecEvents[2].from = 3 /\ ExecEvents[2].to = 4

RECURSIVE SumAffected(_)
SumAffected(pk) == IF pk = <<>> THEN 0 ELSE Head(pk).aff + SumAffected(Tail(pk))

\* C23: when every package of the split succeeds, the count _execBulk
\* returns is the sum of the counts of the packages.
C23_SplitRowsAffected ==
    (fnpc = "returned" /\ "totRowsAffected" \in DOMAIN fnRes /\ fnRes.err = "nil") =>
        fnRes.totRowsAffected = SumAffected(ExecEvents)


(***************************************************************************)
(* Properties of the download of a LOB.                                    *)
(***************************************************************************)
\* C24: in every ReadLobRequest of _decodeLobs Ofs is the number of
\* characters (bytes of a binary LOB) received so far and ChunkSize is
\* min(lobChunkSize, NumChar - Ofs), so that Ofs + ChunkSize is at most
\* NumChar; no request is sent when the descriptor has isLastData set.
C24_LobChunkSize ==
    fnpc \in {"request", "reply", "returned"} =>
        /\ \A k \in 1..Len(fnRes.reqs) :
              LET req == fnRes.reqs[k]
              IN /\ req.Ofs = req.received
                 /\ req.ChunkSize = min(fnArg.lobChunkSize, fnArg.NumChar - req.Ofs)
                 /\ req.Ofs + req.ChunkSize <= fnArg.NumChar
        /\ NumHdbChars(fnArg.B) = fnArg.NumChar => fnRes.reqs = <<>>

\* the runes of a chunk and those of six bytes among them
NumRunes(b, z) == Cardinality({k \in 1..Len(b) : b[k].full /\ b[k].size \in z})

\* C25: the offset advance for a chunk of a char based LOB is the number of
\* its complete CESU-8 runes plus one for every rune of 6 bytes; a chunk
\* that ends in an incomplete rune ends the download with an error and no
\* further ReadLobRequest is sent.
C25_CharCount ==
    (fnpc \in {"request", "reply", "returned"} /\ fnArg.IsCharBased) =>
        IF fnRes.B # <<>> /\ ~fnRes.B[Len(fnRes.B)].full
        THEN /\ fnpc = "returned"
             /\ fnRes.err = "lob chunk consists of incomplete CESU-8 runes"
        ELSE (fnpc = "request" \/ (fnpc = "returned" /\ fnRes.err = "nil")) =>
                fnRes.ofs = NumRunes(fnRes.B, RuneSizes) + NumRunes(fnRes.B, {6})

\* a chunk that is one surrogate pair advances the offset by 2
C25_Witness ==
    /\ fnpc = "returned"
    /\ fnArg.IsCharBased
    /\ fnRes.err = "nil"
    /\ fnRes.reqs # <<>>
    /\ fnRes.B = <<[size |-> 6, full |-> TRUE]>>
    /\ fnRes.ofs = 2


(***************************************************************************)
(* Properties of encodeLobs.                                               *)
(***************************************************************************)
\* the arguments of the descriptors of a request
SentArgs(req) == {req[i].arg : i \in 1..Len(req)}

\* the arguments that reported last data in a request
LastArgs(req) == {req[i].arg : i \in {k \in 1..Len(req) : req[k].isLastData}}

\* C26: every WriteLobRequest of encodeLobs is sent after the check that
\* the remaining descriptors and the locator ids have equal length and
\* match pairwise, and carries all remaining descriptors with their next
\* chunk; a failed check is a protocol error; encodeLobs returns nil only
\* after every LOB descriptor has reported last data, and no descriptor is
\* sent again after the request in which it reported last data.
C26_UploadLoop ==
    fnpc \in {"write", "reply", "returned"} =>
        /\ \A k \in 1..Len(fnRes.reqs) :
              LET c == fnRes.checked[k] IN
              /\ Len(c.descrs) = Len(c.ids)
              /\ \A i \in 1..Len(c.ids) : c.descrs[i].ID = c.ids[i]
              /\ SentArgs(fnRes.reqs[k]) = {c.descrs[i].arg : i \in 1..Len(c.descrs)}
              /\ \A i \in 1..Len(c.descrs) :
                    fnRes.reqs[k][i].left = c.descrs[i].left - 1
              /\ \A j \in (k + 1)..Len(fnRes.reqs) :
                    /\ LastArgs(fnRes.reqs[k]) \cap SentArgs(fnRes.reqs[j]) = {}
                    /\ j = k + 1 =>
                          SentArgs(fnRes.reqs[j]) = SentArgs(fnRes.reqs[k]) \ LastArgs(fnRes.reqs[k])
        /\ (fnpc = "returned" /\ fnRes.err \in {InSync(<<>>, <<1>>), InSync(<<[ID |-> 1]>>, <<2>>)}) =>
              fnRes.err = InSync(fnRes.descrs, fnRes.ids)
        /\ (fnpc = "returned" /\ fnRes.err = "nil") =>
              \A a \in 1..Len(fnArg.left) :
                 \E k \in 1..Len(fnRes.reqs) : a \in LastArgs(fnRes.reqs[k])

C26_Witness ==
    /\ fnpc = "returned"
    /\ "checked" \in DOMAIN fnRes
    /\ fnRes.err = "nil"
    /\ Len(fnArg.left) = 2
    /\ Len(fnRes.reqs) = 2
    /\ Len(fnRes.reqs[1]) = 2
    /\ Len(fnRes.reqs[2]) = 1


(***************************************************************************)
(* Properties of _readCall.                                                *)
(***************************************************************************)
\* the positions of the ResultMetadata parts among the first k parts
MetadataParts(k) == {i \in 1..k : fnArg[i] = "PkResultMetadata"}

\* the parts that were processed
ProcessedParts == {fnRes.processed[i].part : i \in 1..Len(fnRes.processed)}

LobArgs ==
    {a \in 1..(numRows(fnArg) * Len(fnArg.InputFields)) :
        fnArg.nvargs[a].kind = "LobInDescr"}

\* one type code byte and, unless it is a null value, the parameter size
\* of each of the first n arguments
RECURSIVE CellBytes(_)
CellBytes(n) ==
    IF n = 0
    THEN 0
    ELSE LET v == fnArg.nvargs[n]
             f == fnArg.InputFields[((n - 1) % Len(fnArg.InputFields)) + 1]
         IN CellBytes(n - 1) + 1 + (IF v.kind = "nil" /\ f.supportNullValue THEN 0 ELSE v.prm)

\* the first chunks of the LOBs among the first n arguments
RECURSIVE ChunkBytes(_)
ChunkBytes(n) ==
    IF n = 0
    THEN 0
    ELSE ChunkBytes(n - 1)
            + (IF fnArg.nvargs[n].kind = "LobInDescr" THEN fnArg.nvargs[n].chunk ELSE 0)

\* the last argument of the row of argument a
RowEnd(a) == (((a - 1) \div Len(fnArg.InputFields)) + 1) * Len(fnArg.InputFields)

\* C28: with hasLob set, the offset InputParameters.size passes to setPos
\* for a LOB argument is the number of body bytes InputParameters.encode
\* writes before the first chunk of that LOB: the type code bytes and
\* parameter sizes of the rows up to its own and the first chunks of the
\* LOBs before it; and size is the number of bytes encode writes.
C28_LobOffset ==
    (fnpc = "encode" /\ "at" \in DOMAIN fnRes) =>
        /\ fnRes.size = Len(fnRes.body)
        /\ fnArg.hasLob =>
              \A a \in LobArgs :
                 /\ fnRes.pos[a] = fnRes.at[a]
                 /\ fnRes.pos[a] = CellBytes(RowEnd(a)) + ChunkBytes(a - 1)
                 /\ \A k \in 1..fnArg.nvargs[a].chunk : fnRes.body[fnRes.pos[a] + k] = "lob data"
        /\ fnRes.size = CellBytes(numRows(fnArg) * Len(fnArg.InputFields))
                           + (IF fnArg.hasLob
                              THEN ChunkBytes(numRows(fnArg) * Len(fnArg.InputFields))
                              ELSE 0)

\* two rows of a value and a LOB: the second LOB starts after both rows'
\* parameters and the first LOB's chunk
C28_Witness ==
    /\ fnpc = "encode"
    /\ "at" \in DOMAIN fnRes
    /\ fnArg.hasLob
    /\ Len(fnArg.InputFields) = 2
    /\ Len(fnArg.nvargs) = 4
    /\ fnArg.nvargs[1].kind = "nil"
    /\ fnArg.InputFields[1].supportNullValue
    /\ fnArg.nvargs[2] = [kind |-> "LobInDescr", prm |-> 3, chunk |-> 2]
    /\ fnArg.nvargs[3].kind = "value"
    /\ fnArg.nvargs[4] = [kind |-> "LobInDescr", prm |-> 3, chunk |-> 2]
    /\ fnRes.pos[2] = 5
    /\ fnRes.pos[4] = 14
    /\ fnRes.size = 16


(***************************************************************************)
(* Properties of PartHeader.                                               *)
(***************************************************************************)
\* C29: for 0 <= n <= 2^31-1 setNumArg(n) followed by numArg() returns n;
\* the 16 bit field holds n when n <= 32767, the sentinel -1 and the 32 bit
\* field are used if and only if n > 32767; for n > 2^31-1 setNumArg
\* returns an error and leaves the header unchanged.
C29_NumArgRoundTrip ==
    (fnpc \in {"setNumArg", "numArg"} /\ "h" \in DOMAIN fnArg) =>
        LET n == fnArg.numArg
        IN /\ (WLeq(Wide(0), n) /\ WLeq(n, MaxNumArg)) =>
                 /\ fnRes.err = "nil"
                 /\ fnpc = "numArg" => fnRes.numArg = n.hi * 65536 + n.lo
                 /\ WLeq(n, Wide(32767)) => fnRes.h.argumentCount = n.lo
                 /\ (fnRes.h.argumentCount = 0 - 1) <=> WLess(Wide(32767), n)
                 /\ WLess(Wide(32767), n) => fnRes.h.bigArgumentCount = n.hi * 65536 + n.lo
           /\ WLess(MaxNumArg, n) =>
                 /\ fnRes.err # "nil"
                 /\ fnRes.h = fnArg.h

\* 32768 arguments, read back from the 32 bit field
C29_Witness ==
    /\ fnpc = "numArg"
    /\ "h" \in DOMAIN fnArg
    /\ fnArg.numArg = Wide(32768)
    /\ fnRes.h.argumentCount = 0 - 1
    /\ fnRes.h.bigArgumentCount = 32768
    /\ fnRes.numArg = 32768


(***************************************************************************)
(* Properties of connAttrs.mu.                                             *)
(***************************************************************************)
\* C30: every getter reads its field holding the read lock and every
\* setter writes its field holding the write lock, so that no setter is at
\* the write of a field while newConn or a getter is at the read of it.
C30_AttrsLocked ==
    (fnpc = "shared" /\ "mu" \in DOMAIN fnRes) =>
        /\ fnRes.at["getter"] = "read" => fnRes.mu.readers > 0
        /\ fnRes.at["setter"] = "write" => fnRes.mu.writer
        /\ \A t \in {"getter", "newConn"} :
              ~(/\ fnRes.at["setter"] = "write"
                /\ fnRes.at[t] = "read"
                /\ fnRes.field[t] = fnRes.field["setter"])


(***************************************************************************)
(* Properties of the connection lock, continued.                           *)
(***************************************************************************)
\* the positions of a call between its lock and its unlock
InsideLock == {"body", "sync", "select", "parked", "selCancel", "selDone", "returning"}

\* C31: on every path of every operation each successful tryLock or lock
\* is followed by exactly one unlock: the connection mutex is never
\* unlocked while it is not held, it is held by a goroutine only inside an
\* operation, by a cursor only while the cursor is open, and it is free
\* once the operations have returned and the cursor is closed.
C31_BalancedLocking ==
    /\ ~lockFault
    /\ \A p \in Procs :
          /\ connMu = p => pc[p] \in InsideLock
          /\ pc[p] \in InsideLock => connMu = p
          /\ mu = p => pc[p] = "connWait"
    /\ connMu = "rows" <=> (cursor.st = "open" /\ cursor.onClose)
    /\ ((\A p \in Procs : pc[p] \in {"idle", "stopped"}) /\ cursor.st # "open") =>
          (connMu = "free" /\ mu = "free")

\* a query inside a transaction has returned a cursor that holds the lock
C31_Witness ==
    /\ connMu = "rows"
    /\ cursor.st = "open"
    /\ cursor.onClose
    /\ pc["app"] = "idle"
    /\ last.val = "rows"
    /\ last.name = "CallQuery"
    /\ inTx
    /\ ~lockFault


\* C32: an operation that takes the connection lock with lock() (Commit,
\* Rollback, stmt.Close, callStmt.Close, IsValid, ResetSession, conn.Close)
\* never returns ErrNestedQuery; called while a cursor is open on the
\* connection it stays blocked in lock() as long as the cursor is open.
C32_LockOpsBlock ==
    [][\A p \in Procs :
          (pc[p] = "lock" /\ pc'[p] # "lock") =>
              /\ cursor.st # "open"
              /\ last'.err # "ErrNestedQuery"]_vars

\* the part of C32 that holds: lock() waits for a cursor that holds the lock
C32_BlocksOnLockingCursor ==
    [][\A p \in Procs :
          (pc[p] = "lock" /\ pc'[p] # "lock") =>
              /\ ~(cursor.st = "open" /\ cursor.onClose)
              /\ connMu = "free"
              /\ last'.err # "ErrNestedQuery"]_vars


ExecuteRequests ==
    {i \in 1..Len(fnRes.sent) : fnRes.sent[i].messageType \in {"ExecuteDirect", "Execute"}}

\* C33: every ExecuteDirect or Execute request of a connection carries
\* commit = true exactly when no transaction was open at the call, for
\* direct, prepared and procedure-call operations alike.
C33_Autocommit ==
    fnpc = "open" =>
        \A i \in ExecuteRequests : fnRes.sent[i].commit = ~fnRes.sent[i].inTx

\* C33 as the code has it: the requests of direct and prepared operations
\* and of BeginTx carry commit = true exactly when no transaction was open
\* at the call; the Execute of a procedure call always carries commit =
\* false; Commit and Rollback carry commit = false.
C33_AutocommitExceptCalls ==
    fnpc = "open" =>
        \A i \in 1..Len(fnRes.sent) :
           LET r == fnRes.sent[i]
           IN  /\ r.by \in DirectOps \cup PreparedOps \cup {"BeginTx"} => r.commit = ~r.inTx
               /\ r.by \in CallOps => ~r.commit
               /\ r.messageType \in {"Commit", "Rollback"} => ~r.commit

\* a procedure call outside a transaction, then a BeginTx that opens one
C33_Witness ==
    /\ fnpc = "open" /\ Len(fnRes.sent) = 3 /\ fnRes.inTx
    /\ fnRes.sent[1].by = "callStmt.ExecContext" /\ ~fnRes.sent[1].inTx
    /\ ~fnRes.sent[1].commit
    /\ fnRes.sent[2].by = "BeginTx" /\ fnRes.sent[2].commit
    /\ fnRes.sent[3].by = "BeginTx"


\* C34: the first Commit or Rollback of a transaction sets inTx to false,
\* also on a bad connection or when the message fails, and sends at most
\* one message (none on a bad connection); every later Commit or Rollback
\* of that transaction returns nil, sends nothing and changes no state; a
\* BeginTx that finds the connection good after the close is not refused as
\* nested.
C34_TxCloseIdempotent ==
    [][\A p \in Procs :
          /\ (pc[p] = "lock" /\ op[p].name = "TxClose" /\ pc'[p] # "lock") =>
                /\ Ret(p)
                /\ txObj' = "closed"
                /\ IF txObj = "closed"
                   THEN /\ last'.err = "nil"
                        /\ ~last'.wrote
                        /\ UNCHANGED <<lockVars, dbVars, cLastError, inTx, wk, objVars>>
                   ELSE /\ ~inTx'
                        /\ isBad => (last'.err = "ErrBadConn" /\ ~last'.wrote)
                        /\ last'.err \in {"nil", "hdb", "other", "ErrBadConn"}
                        /\ UNCHANGED <<cLastError, wk, cursor, stmtObj, callObj>>
          /\ (pc[p] = "body" /\ op[p].name = "BeginTx" /\ Ret(p) /\ ~inTx) =>
                last'.err # "ErrNestedTransaction"
          /\ (pc[p] = "body" /\ op[p].name = "BeginTx" /\ ~inTx /\ ~isBad
                /\ op[p].variant # "badLevel") => pc'[p] \in {"body", "select"}
    ]_vars

\* the second Commit of a transaction has returned nil on a connection that
\* the first one left bad
C34_Witness ==
    /\ last.name = "TxClose" /\ last.err = "nil" /\ ~last.wrote
    /\ txObj = "closed" /\ ~inTx /\ dbLastError = "ioErr"


\* the rule of C35 for one step; leftover is TRUE where a call that finds a
\* flush request left behind by an earlier call is exempt
StickyRule(leftover) ==
    /\ bulk => bulk'
    /\ (ExecStep /\ bin'.tok = "NoFlush") => bulk'
    /\ (ExecStep /\ bulk /\ bin'.tok = "none" /\ bin'.arg = "row"
          /\ Len(bin'.buffered) + 1 < bulkSize /\ ~(leftover /\ bin'.flush)) =>
           /\ execLog' = <<>>
           /\ bret' = [val |-> "noRows", n |-> 0, err |-> FALSE]
           /\ nvargs' = Append(bin'.buffered, rowSeq')
           /\ numBulk' = numBulk + 1

\* C35: once an Exec call carried the NoFlush token the statement stays in
\* bulk mode; a later Exec call with a row and no token is buffered and
\* returns 'no rows' without an exec, unless the buffered row count reaches
\* bulkSize.
C35_StickyBulk == [][StickyRule(FALSE)]_vars

\* the part of C35 that holds: the same for every call that finds no flush
\* request left behind
C35_StickyBulkNoLeftover == [][StickyRule(TRUE)]_vars


\* C36: when execBulk has attempted a flush and returns, the row buffer is
\* empty and numBulk is 0, whether the exec succeeded, was refused or failed;
\* a flush sends exactly the rows buffered since the last flush attempt and
\* the row of the call, so rows of a failed flush are neither kept nor sent
\* again; between calls numBulk is the number of buffered rows.
C36_BufferAfterFlush ==
    [][ /\ (ExecStep /\ bin'.bulk /\ execLog' # <<>> /\ bpc' = "idle") =>
              /\ nvargs' = <<>>
              /\ numBulk' = 0
              /\ Len(execLog') = 1
              /\ execLog'[1].rows = (IF bin'.arg = "row" THEN Append(nvargs, rowSeq')
                                     ELSE nvargs)
        /\ bpc = "idle" => numBulk = Len(nvargs)
        /\ bpc' = "idle" => numBulk' = Len(nvargs')
        /\ rowSeq' >= rowSeq
        /\ \A i \in 1..Len(nvargs) : nvargs[i] <= rowSeq
        /\ nvargs' \in {<<>>, nvargs, Append(nvargs, rowSeq')}
      ]_vars

\* the flush of two buffered rows has failed and has left the buffer empty
C36_Witness ==
    /\ bpc = "idle" /\ bin.bulk /\ Len(execLog) = 1
    /\ execLog[1].out = "failed" /\ Len(execLog[1].rows) = 2
    /\ bret.err /\ nvargs = <<>> /\ numBulk = 0


\* the _exec of the package that ends at row fnArg.execFail has failed
SplitExecFailed ==
    /\ fnpc = "returned"
    /\ ExecEvents # <<>>
    /\ ExecEvents[Len(ExecEvents)].to = fnArg.execFail

\* C37: when the _exec of a package fails in the split of _execBulk,
\* _execBulk returns that error with the affected-row total of the packages
\* before it, sends no further package and does not dereference the nil
\* result of the failed call.
C37_SplitExecFailure ==
    SplitExecFailed =>
        /\ fnRes.err = "exec error"
        /\ fnRes.totRowsAffected =
              SumAffected(SubSeq(ExecEvents, 1, Len(ExecEvents) - 1))


\* C38: when the reply to the Authenticate message has no authentication
\* part, so that no method is selected, _authenticate returns an error and
\* sends no Connect message; FinalRequest and FinalReply are never called
\* with no method selected.
C38_MissingInitReply ==
    /\ fnpc = "initReply read" => fnRes.method # "nil"
    /\ (fnpc = "returned" /\ fnRes.initReply.kind = "noAuthPart") =>
          /\ fnRes.err \notin {"nil", "panic"}
          /\ ~ConnectSent


\* a package of several LOBs of which only the last has data left
LastLobIncomplete ==
    /\ Len(fnArg.left) >= 2
    /\ fnArg.left[Len(fnArg.left)] > 0
    /\ \A a \in 1..(Len(fnArg.left) - 1) : fnArg.left[a] = 0

\* C39: when _exec has sent a package whose earlier rows carry complete
\* LOBs and whose last row an incomplete one, and the server returns locator
\* ids for the LOBs with data left only, encodeLobs pairs every locator id
\* with the descriptor of a LOB that has data left, and the exec ends
\* without a protocol error.
C39_LocatorPairing ==
    (fnpc \in {"lob write", "lob reply", "returned"} /\ LastLobIncomplete) =>
        /\ \A i \in 1..Len(fnRes.descrs) :
              /\ fnRes.descrs[i].ID = fnRes.descrs[i].arg
              /\ fnArg.left[fnRes.descrs[i].arg] > 0
        /\ fnpc = "returned" => fnRes.err \in {"nil", "ErrBadConn", "fetch error"}

\* the part of C39 that holds: a package in which every LOB has data left
\* is uploaded with every locator id paired with its LOB
C39_AllIncomplete ==
    (fnpc \in {"lob write", "lob reply", "returned"}
       /\ \A a \in 1..Len(fnArg.left) : fnArg.left[a] > 0) =>
        /\ \A i \in 1..Len(fnRes.descrs) : fnRes.descrs[i].ID = fnRes.descrs[i].arg
        /\ fnpc = "returned" => fnRes.err \in {"nil", "ErrBadConn", "fetch error"}

====
